---------------------------- MODULE Spec2Model ----------------------------
(***************************************************************************)
(* TextFlow: region-based text flow (js/intro.js, js/text-flow-intro.js).  *)
(*                                                                         *)
(* A text is a sequence of tokens: 0 is a run of whitespace, a positive    *)
(* number is a word.  Heights are whole numbers of layout units.  A block  *)
(* of n words rendered at a width of w words per line has Lines(n, w)      *)
(* lines of LineHeight units each; measureHeight adds the block margin     *)
(* that the absolutely positioned measuring container includes.            *)
(***************************************************************************)
EXTENDS Integers, Sequences, FiniteSets, TLC

(***************************************************************************)
(* Bounds of the model.                                                    *)
(***************************************************************************)
MaxBlocks == 3
MaxWords == 4
MaxRegions == 2
MaxHeight == 3
MaxWidth == 2
MaxPasses == 2
LineHeight == 1
HeadingLineHeight == 2
ParaMargin == 0
MaxHandlers == 3
MaxCount == 3
MaxPageBlocks == 1
MaxPageRegions == 1
MaxLineHeight == 2
MaxCandidates == 3
MaxOrder == 1
MaxScans == 2
MaxRawBlocks == 3
MaxMeasures == 3
MaxScroll == 6
MaxCalls == 4
MaxOthers == 2
MaxVersions == 2
MaxLinks == 2
MaxOpens == 2
MaxNavClock == 4
Tick == 20
\* debounceMs of the engine and the delay of the page's debounced(initLayout)
DebounceMs == 180
PageDebounceMs == 200
\* an unarmed timer
NoTimer == -1
\* orphanProtection as the content gives it; -1: absent or no number
OrphanValues == {-1, 0, 1, 3}

VARIABLES
    engine,        \* "intro" (js/intro.js) or "tfi" (js/text-flow-intro.js)
    blocks,        \* this.blocks
    regions,       \* this.regions: the geometry getRegionMetrics reads
    content,       \* what each region's content sink holds
    queue,         \* flow(): const queue
    ri,            \* flow(): the for-loop index i (1-based)
    used,          \* flow(): let used
    pc,            \* position inside flow()
    pass,          \* number of flow passes started
    sandboxWidth,  \* this.sandbox.style.width (0: no sandbox yet)
    firstPass,     \* content as the first pass left it
    splitLog       \* the calls of splitParagraph of the current pass

flowVars == <<engine, blocks, regions, content, queue, ri, used, pc, pass,
              sandboxWidth, firstPass, splitLog>>

\* The page script of js/intro.js around the engine
VARIABLES
    booted,        \* DOMContentLoaded has been handled
    wide,          \* shouldUseTextFlow(): window.innerWidth > 1280
    fontsLoaded,   \* document.fonts.ready has resolved
    hasContent,    \* flow.content is not null
    calls,         \* the initLayout() calls waiting at an await
    listening,     \* the page's resize listener is registered
    pageTimer,     \* time left on the timer of debounced(initLayout, 200)
    handlers,      \* time left on the timer of each handler attachResize added
    sinceResize,   \* time since the last resize event (capped)
    track,         \* "burst": a burst of resizes that began with all quiet,
                   \* content loaded and a handler of the engine attached
    burstPasses,   \* flow passes since that burst began (capped)
    earlyPass,     \* one of them began before the quiet interval was over
    thrown,        \* an initLayout() call ended with an uncaught exception
    visible,       \* the regions of the document that are visible now
    scanned,       \* this.regions as the last scanRegions() left it
    blockCount,    \* this.blocks.length
    lastLoad,      \* how the last loadContent() to return ended
    lastPass       \* the last call of flow(): what it ran on

pageVars == <<booted, wide, fontsLoaded, hasContent, calls, listening,
              pageTimer, handlers, sinceResize, track, burstPasses, earlyPass,
              thrown, visible, scanned, blockCount, lastLoad, lastPass>>

\* One call of splitParagraph on its own
VARIABLES
    splitCall,     \* the arguments of the call under way, or NoCall
    splitResult    \* what the call returned

splitVars == <<splitCall, splitResult>>

\* scanRegions() on its own document
VARIABLES
    candidates,    \* document.querySelectorAll(this.regionSelector), in
                   \* document order, each with its style and its children
    regionNodes,   \* this.regions: indexes into candidates
    visits,        \* the regions the for loop of flow() has visited
    scanNo,        \* number of scanRegions() calls so far
    scanPc         \* position in init(): "new", "dom", "scanned", "flow",
                   \* "flowed"

scanVars == <<candidates, regionNodes, visits, scanNo, scanPc>>

\* buildBlocks() on its own raw list
VARIABLES
    json,          \* json.blocks as loaded
    built,         \* what buildBlocks(json) returned
    buildPc        \* "new", "loaded", "built"

buildVars == <<json, built, buildPc>>

\* The measurement sandbox on its own
VARIABLES
    sandbox,       \* this.sandbox
    sandboxCount,  \* the sandbox elements this instance has made
    createCalls,   \* calls of createSandbox() so far (capped)
    measureNo,     \* measurements started so far
    sbPc           \* "idle", or "split": inside splitParagraph()

sandboxVars == <<sandbox, sandboxCount, createCalls, measureNo, sbPc>>

\* js/stoic-drama.js
VARIABLES
    stoicLoaded,   \* DOMContentLoaded has been handled
    innerWidthPx,  \* window.innerWidth
    wheelListeners,\* the wheel listeners on window (capped)
    scrollX,       \* window.scrollX
    lastWheel      \* the latest wheel event and what the listeners did

wheelVars == <<stoicLoaded, innerWidthPx, wheelListeners, scrollX, lastWheel>>

\* init() and destroy() on one instance
VARIABLES
    initsPending,  \* init() calls waiting at an await
    listeners,     \* listeners[k]: handler k is a resize listener of window
    timers,        \* timers[k]: the debounce timer of handler k
    resizeHandler, \* this.resizeHandler (0: never set)
    destroyed,     \* destroy() has been called
    flowable,      \* this.blocks and this.regions are not empty
    lateArmed,     \* the handlers whose timer a resize after destroy() set
    latePass,      \* a pass ran that a resize after destroy() caused
    pendingAtDestroy \* an init() was under way at the first destroy()

destroyVars == <<initsPending, listeners, timers, resizeHandler, destroyed,
                 flowable, lateArmed, latePass, pendingAtDestroy>>

\* js/algorithm.js
VARIABLES
    algoBooted,    \* DOMContentLoaded has been handled
    algoWide,      \* shouldUseTextFlow(): window.innerWidth > 1024
    algoContent,   \* flow.content is not null
    algoCalls,     \* the initLayout() calls waiting at an await
    algoListening, \* the page's resize listener is registered
    algoTimer,     \* the timer of debounced(initLayout, 200)
    algoDom,       \* the traditional container and the regions' display
    algoStarted,   \* initLayout() calls started so far
    algoLastWide,  \* shouldUseTextFlow() at the latest initLayout() call
    algoThrown     \* an initLayout() call has thrown

algoVars == <<algoBooted, algoWide, algoContent, algoCalls, algoListening,
              algoTimer, algoDom, algoStarted, algoLastWide, algoThrown>>

\* js/how-we-did-it.js: ResponsiveContentManager
VARIABLES
    rcmLoaded,     \* the manager has been constructed
    rcmWidth,      \* window.innerWidth
    isContentMoved,\* this.isContentMoved
    overflowContent, \* the children of this.overflowContent
    overflowDisplay, \* the display of this.overflowSection
    region2Version,\* the version of the content of this.region2Content
    rcmResizes     \* resize events handled so far (capped)

overflowVars == <<rcmLoaded, rcmWidth, isContentMoved, overflowContent,
                  overflowDisplay, region2Version, rcmResizes>>

\* GlobalNavigation
VARIABLES
    isOpen,        \* this.isOpen
    overlayActive, \* the overlay has the class 'active'
    ariaExpanded,  \* the hamburger button's aria-expanded
    linkStyle,     \* link index -> its inline transition, transform, opacity
    navTimers,     \* the timers set and not yet fired
    navLast,       \* the last of openNav and closeNav to run
    navClock,      \* the time, in steps of 100ms (capped)
    navOpens       \* openNav() calls so far (capped)

navVars == <<isOpen, overlayActive, ariaExpanded, linkStyle, navTimers,
             navLast, navClock, navOpens>>

unitVars ==
    <<scanVars, buildVars, sandboxVars, wheelVars, destroyVars, algoVars,
      overflowVars, navVars>>

vars == <<flowVars, pageVars, splitVars, unitVars>>

-----------------------------------------------------------------------------
(***************************************************************************)
(* Helpers                                                                 *)
(***************************************************************************)
Max(a, b) == IF a >= b THEN a ELSE b

CeilDiv(a, b) == (a + b - 1) \div b

RECURSIVE SeqSum(_)
SeqSum(s) == IF s = <<>> THEN 0 ELSE Head(s) + SeqSum(Tail(s))

RECURSIVE Flatten(_)
Flatten(ss) == IF ss = <<>> THEN <<>> ELSE Head(ss) \o Flatten(Tail(ss))

IsPrefix(s, t) == Len(s) <= Len(t) /\ SubSeq(t, 1, Len(s)) = s

\* text.split(/\s+/).filter(Boolean)
Words(text) == SelectSeq(text, LAMBDA t : t # 0)

\* words.join(' ')
RECURSIVE Join(_)
Join(words) ==
    IF Len(words) <= 1 THEN words
    ELSE <<Head(words), 0>> \o Join(Tail(words))

\* (a slice that ends one word early)
SliceToShort(words, k) == SubSeq(words, 1, k - 1)
\* words.slice(0, k) and words.slice(k)
SliceTo(words, k) == SubSeq(words, 1, k)
\* (a slice that starts one word early)
SliceFromEarly(words, k) == SubSeq(words, k, Len(words))
SliceFrom(words, k) == SubSeq(words, k + 1, Len(words))

-----------------------------------------------------------------------------
(***************************************************************************)
(* Measurement oracle                                                      *)
(***************************************************************************)
\* Number of rendered lines of n words at a width of w words per line.
Lines(n, w) == IF n = 0 THEN 0 ELSE CeilDiv(n, w)

\* getBoundingClientRect().height of a paragraph element and of a heading
\* element: its lines.
RectHeight(words, w) == LineHeight * Lines(Len(words), w)
HeadingRectHeight(words, w) == HeadingLineHeight * Lines(Len(words), w)

\* getLineHeightPx(el)
GetLineHeightPx == LineHeight

\* block.elFactory(t): a paragraph renders the text it is given; a heading
\* renders the text its closure captured when the block was built, which is
\* the heading's text, as no code writes the text of a heading.
ElFactory(block, t) ==
    [id |-> block.id, type |-> block.type,
     words |-> Words(IF block.type = "paragraph" THEN t ELSE block.text)]

\* measureHeight(nodes): the height of a temporary container holding clones
\* of the nodes, at the sandbox width.
MeasureHeight(nodes, w) ==
    SeqSum([k \in 1..Len(nodes) |->
              IF nodes[k].type = "paragraph"
              THEN RectHeight(nodes[k].words, w) + ParaMargin
              ELSE HeadingRectHeight(nodes[k].words, w)])

\* getRegionMetrics(region, wrap)
GetRegionMetrics(region) ==
    [availableHeight |-> region.availableHeight,
     innerWidth |-> region.innerWidth]

-----------------------------------------------------------------------------
(***************************************************************************)
(* splitParagraph.  H is the measuring element's height as a function of   *)
(* the number of leading words it shows.                                   *)
(***************************************************************************)
NoSplit(text) == [fitsWords |-> 0, firstText |-> <<>>, restText |-> text]

\* (no floor at all)
MinLinesNone(op) == 0
\* (a floor of one line whatever the block asks for)
MinLinesOne(op) == 1
\* Math.max(1, Number(block.orphanProtection || 2))
MinLines(op) == Max(1, IF op = 0 THEN 2 ELSE op)

\* (a search that stops at the first word count it finds to fit)
RECURSIVE BinarySearchFirst(_, _, _, _, _)
BinarySearchFirst(H, availableHeight, lo, hi, best) ==
    IF lo > hi THEN best
    ELSE LET mid == (lo + hi) \div 2
         IN  IF H[mid] <= availableHeight THEN mid
             ELSE BinarySearchFirst(H, availableHeight, lo, mid - 1, best)
\* intro.js: binary search for the largest word count that fits.
RECURSIVE BinarySearch(_, _, _, _, _)
BinarySearch(H, availableHeight, lo, hi, best) ==
    IF lo > hi THEN best
    ELSE LET mid == (lo + hi) \div 2
         IN  IF H[mid] <= availableHeight
             THEN BinarySearch(H, availableHeight, mid + 1, hi, mid)
             ELSE BinarySearch(H, availableHeight, lo, mid - 1, best)

\* intro.js: the number of passes through the loop of the binary search,
\* one measurement each.
RECURSIVE BinarySearchMeasurements(_, _, _, _)
BinarySearchMeasurements(H, availableHeight, lo, hi) ==
    IF lo > hi THEN 0
    ELSE LET mid == (lo + hi) \div 2
         IN  1 + IF H[mid] <= availableHeight
                 THEN BinarySearchMeasurements(H, availableHeight, mid + 1, hi)
                 ELSE BinarySearchMeasurements(H, availableHeight, lo, mid - 1)

\* intro.js: the floor test on the chosen fragment
FragmentMeetsFloor(fragHeight, minHeight) == ~(fragHeight < minHeight)

SplitParagraphIntro(text, op, H, lineHeight, availableHeight) ==
    LET words == Words(text)
        minLines == MinLines(op)
        minHeight == lineHeight * minLines
        best == BinarySearch(H, availableHeight, 1, Len(words), 0)
    IN  IF Len(words) = 0
        THEN [fitsWords |-> 0, firstText |-> <<>>, restText |-> <<>>]
        ELSE IF availableHeight < minHeight THEN NoSplit(text)
        ELSE IF best = 0 THEN NoSplit(text)
        ELSE IF ~FragmentMeetsFloor(H[best], minHeight) THEN NoSplit(text)
        ELSE [fitsWords |-> best,
              firstText |-> Join(SliceTo(words, best)),
              restText |-> Join(SliceFrom(words, best))]

\* text-flow-intro.js: grow word by word while the line count stays within
\* maxLines; returns bestWordCount.
RECURSIVE GrowWords(_, _, _, _, _)
GrowWords(H, lineHeight, maxLines, n, i) ==
    IF i > n THEN n
    ELSE IF CeilDiv(H[i], lineHeight) <= maxLines
         THEN GrowWords(H, lineHeight, maxLines, n, i + 1)
         ELSE i - 1

SplitParagraphTfi(text, op, H, lineHeight, availableHeight) ==
    LET words == Words(text)
        maxLines == availableHeight \div lineHeight
        grown == GrowWords(H, lineHeight, maxLines, Len(words), 1)
        bestWordCount ==
            IF grown = 0 /\ H[1] <= availableHeight THEN 1 ELSE grown
    IN  IF Len(words) = 0
        THEN [fitsWords |-> 0, firstText |-> <<>>, restText |-> <<>>]
        ELSE IF maxLines < 1 THEN NoSplit(text)
        ELSE [fitsWords |-> bestWordCount,
              firstText |-> Join(SliceTo(words, bestWordCount)),
              restText |-> Join(SliceFrom(words, bestWordCount))]

SplitParagraph(eng, block, w, availableHeight) ==
    LET words == Words(block.text)
        H == [k \in 1..Len(words) |-> RectHeight(SliceTo(words, k), w)]
    IN  IF eng = "intro"
        THEN SplitParagraphIntro(block.text, block.orphanProtection, H,
                                 GetLineHeightPx, availableHeight)
        ELSE SplitParagraphTfi(block.text, block.orphanProtection, H,
                               GetLineHeightPx, availableHeight)

-----------------------------------------------------------------------------
(***************************************************************************)
(* Content and regions                                                     *)
(***************************************************************************)
\* The text of raw block i with n words: its words are 10i+1 .. 10i+n, one
\* space apart; the text of an even block also starts with whitespace.
RawText(i, n) ==
    (IF i % 2 = 0 THEN <<0>> ELSE <<>>) \o Join([j \in 1..n |-> 10 * i + j])

\* The documents a load may return: 0 to MaxBlocks headings (one word) and
\* paragraphs; the paragraphs of a document share their word count
\* (1..MaxWords) and their orphanProtection, a heading has none.
RawContents ==
    UNION {
      { [i \in 1..n |->
           [type |-> ty[i],
            text |-> RawText(i, IF ty[i] = "heading" THEN 1 ELSE nw),
            keepWithNext |-> kwn[i],
            orphanProtection |-> IF ty[i] = "heading" THEN -1 ELSE op]] :
        ty \in [1..n -> {"heading", "paragraph"}],
        nw \in 1..MaxWords,
        kwn \in [1..n -> BOOLEAN],
        op \in OrphanValues } : n \in 0..MaxBlocks }

\* (an id synthesized from the position among the blocks kept so far)
BlockIdKept(b, index, kept) ==
    IF "id" \in DOMAIN b /\ b.id # 0 THEN b.id ELSE kept + 1
\* b.id || `blk-${index}`: a record without id (no field, or 0) gets its
\* position in the raw list, which stands for blk-0, blk-1, ...
BlockId(b, index, kept) ==
    IF "id" \in DOMAIN b /\ b.id # 0 THEN b.id ELSE index

\* b.level || (type === 'heading' ? 2 : undefined), for a heading
BlockLevel(b) ==
    IF "level" \in DOMAIN b /\ b.level # 0 THEN b.level ELSE 2

\* typeof b.orphanProtection === 'number' ? b.orphanProtection : 2; -1
\* stands for an orphanProtection that is no number
BlockOrphanProtection(b) ==
    IF b.orphanProtection >= 0 THEN b.orphanProtection ELSE 2

\* buildBlocks(json): forEach over json.blocks, pushing a record for a
\* heading (with level) or a paragraph (without) and skipping the others.
RECURSIVE BuildFrom(_, _, _)
BuildFrom(raw, index, out) ==
    IF index > Len(raw) THEN out
    ELSE LET b == raw[index]
             id == BlockId(b, index, Len(out))
             common == [id |-> id, type |-> b.type, text |-> b.text,
                        keepWithNext |-> b.keepWithNext,
                        orphanProtection |-> BlockOrphanProtection(b)]
         IN  IF b.type = "heading"
             THEN BuildFrom(raw, index + 1,
                      Append(out, [id |-> id, type |-> b.type,
                                   level |-> BlockLevel(b), text |-> b.text,
                                   keepWithNext |-> b.keepWithNext,
                                   orphanProtection |->
                                       BlockOrphanProtection(b)]))
             ELSE IF b.type = "paragraph"
                  THEN BuildFrom(raw, index + 1, Append(out, common))
                  ELSE BuildFrom(raw, index + 1, out)

BuildBlocks(raw) == BuildFrom(raw, 1, <<>>)

\* The geometry of the visible regions in flow order.
RegionLists ==
    UNION { [1..n -> [availableHeight : 0..MaxHeight,
                      innerWidth : 1..MaxWidth]] : n \in 0..MaxRegions }

\* (regions left as they are)
ClearRegionsNot(c) == c
\* clearRegions()
ClearRegions(c) == [k \in 1..Len(c) |-> <<>>]

\* (a queue of the very objects this.blocks holds)
QueueAlias(bs) ==
    [k \in 1..Len(bs) |->
       [id |-> bs[k].id, type |-> bs[k].type, text |-> bs[k].text,
        keepWithNext |-> bs[k].keepWithNext,
        orphanProtection |-> bs[k].orphanProtection, obj |-> k]]
\* this.blocks.map((b) => ({ ...b, text: b.text })): every queue entry is a
\* fresh object (obj = 0), not the block it was copied from.
QueueCopy(bs) ==
    [k \in 1..Len(bs) |->
       [id |-> bs[k].id, type |-> bs[k].type, text |-> bs[k].text,
        keepWithNext |-> bs[k].keepWithNext,
        orphanProtection |-> bs[k].orphanProtection, obj |-> 0]]

\* block.text = restText: a write through the queue entry; it reaches
\* this.blocks only if the entry is the very object this.blocks holds.
WriteText(bs, entry, t) ==
    IF entry.obj = 0 THEN bs ELSE [bs EXCEPT ![entry.obj].text = t]

\* A placed element: the block it renders and its words, the height h its
\* placement added to used, its own rendered height rect at the width w of
\* the region, whether it is a fragment a split produced (frag) or one of a
\* keep-with-next pair (pair), and the orphanProtection of its block.
Placed(el, h, w, frag, pair, op) ==
    [id |-> el.id, type |-> el.type, words |-> el.words, h |-> h,
     rect |-> IF el.type = "paragraph" THEN RectHeight(el.words, w)
              ELSE HeadingRectHeight(el.words, w),
     frag |-> frag, pair |-> pair, op |-> op]

-----------------------------------------------------------------------------
InitFlow ==
    /\ engine \in {"intro", "tfi"}
    /\ blocks = <<>>
    /\ regions = <<>>
    /\ content = <<>>
    /\ queue = <<>>
    /\ ri = 0
    /\ used = 0
    /\ pc = "new"
    /\ pass = 0
    /\ sandboxWidth = 0
    /\ firstPass = <<>>
    /\ splitLog = {}

\* flow() has not been called yet; no splitParagraph call
NoPass == [by |-> "none"]
NoCall == [fn |-> "none"]

\* The page before DOMContentLoaded; the window is wide or narrow.
InitPage ==
    /\ booted = FALSE
    /\ wide \in BOOLEAN
    /\ fontsLoaded = FALSE
    /\ hasContent = FALSE
    /\ calls = <<>>
    /\ listening = FALSE
    /\ pageTimer = NoTimer
    /\ handlers = <<>>
    /\ sinceResize = 0
    /\ track = "none"
    /\ burstPasses = 0
    /\ earlyPass = FALSE
    /\ thrown = FALSE
    /\ visible = 1..MaxPageRegions
    /\ scanned = <<>>
    /\ blockCount = 0
    /\ lastLoad = "none"
    /\ lastPass = NoPass

\* No call of splitParagraph on its own is under way.
InitSplit ==
    /\ splitCall = NoCall
    /\ splitResult = NoCall

\* No document has been handed to scanRegions() on its own.
InitScan ==
    /\ candidates = <<>>
    /\ regionNodes = <<>>
    /\ visits = <<>>
    /\ scanNo = 0
    /\ scanPc = "new"

\* No raw list has been handed to buildBlocks() on its own.
InitBuild ==
    /\ json = <<>>
    /\ built = <<>>
    /\ buildPc = "new"

\* this.sandbox = null (constructor)
InitSandbox ==
    /\ sandbox = [cls |-> "none"]
    /\ sandboxCount = 0
    /\ createCalls = 0
    /\ measureNo = 0
    /\ sbPc = "idle"

\* The stoic-drama page before DOMContentLoaded
InitWheel ==
    /\ stoicLoaded = FALSE
    /\ innerWidthPx = 0
    /\ wheelListeners = 0
    /\ scrollX = 0
    /\ lastWheel = [width |-> 0]

\* A new instance: no init() yet, no handler
InitDestroy ==
    /\ initsPending = 0
    /\ listeners = <<>>
    /\ timers = <<>>
    /\ resizeHandler = 0
    /\ destroyed = FALSE
    /\ flowable = FALSE
    /\ lateArmed = {}
    /\ latePass = FALSE
    /\ pendingAtDestroy = FALSE

\* The algorithm page before DOMContentLoaded: the traditional container
\* empty and hidden by its class, the regions as the stylesheet shows them
InitAlgo ==
    /\ algoBooted = FALSE
    /\ algoWide = FALSE
    /\ algoContent = FALSE
    /\ algoCalls = <<>>
    /\ algoListening = FALSE
    /\ algoTimer = NoTimer
    /\ algoDom = [tradFilled |-> FALSE, tradHidden |-> TRUE,
                  regionsHidden |-> FALSE]
    /\ algoStarted = 0
    /\ algoLastWide = FALSE
    /\ algoThrown = FALSE

\* The display the page's stylesheet gives #overflow-section while the
\* script has set none: the section is hidden
StylesheetDisplay == "none"

\* The how-we-did-it page before DOMContentLoaded
InitOverflow ==
    /\ rcmLoaded = FALSE
    /\ rcmWidth = 0
    /\ isContentMoved = FALSE
    /\ overflowContent = <<>>
    /\ overflowDisplay = StylesheetDisplay
    /\ region2Version = 0
    /\ rcmResizes = 0

\* new GlobalNavigation(): the menu closed, the links with no inline style
InitNav ==
    /\ isOpen = FALSE
    /\ overlayActive = FALSE
    /\ ariaExpanded = "false"
    /\ linkStyle = [k \in 0..(MaxLinks - 1) |->
                      [transition |-> "", transform |-> "", opacity |-> ""]]
    /\ navTimers = {}
    /\ navLast = "none"
    /\ navClock = 0
    /\ navOpens = 0

InitUnits ==
    /\ InitScan /\ InitBuild /\ InitSandbox /\ InitWheel /\ InitDestroy
    /\ InitAlgo /\ InitOverflow /\ InitNav

\* The engine alone, on a wide window.
Init == InitFlow /\ InitPage /\ wide /\ InitSplit /\ InitUnits

\* init(): loadContent() succeeds with some document, scanRegions() lists
\* the visible regions and gives each an empty wrapper, createSandbox().
InitEngineFrom(raws) ==
    /\ pc = "new"
    /\ \E raw \in raws : blocks' = BuildBlocks(raw)
    /\ \E rs \in RegionLists :
         /\ regions' = rs
         /\ content' = [k \in 1..Len(rs) |-> <<>>]
    /\ sandboxWidth' = 1000
    /\ pc' = "idle"
    /\ UNCHANGED <<engine, queue, ri, used, pass, firstPass, splitLog>>
    /\ UNCHANGED <<pageVars, splitVars, unitVars>>

InitEngine == InitEngineFrom(RawContents)

-----------------------------------------------------------------------------
(***************************************************************************)
(* flow(): one action per step of the pass.  pc is "region" at the head of *)
(* the for loop over the regions and "loop" at the head of the while loop  *)
(* over the queue.                                                         *)
(***************************************************************************)
availableHeight == GetRegionMetrics(regions[ri]).availableHeight
innerWidth == GetRegionMetrics(regions[ri]).innerWidth
remaining == availableHeight - used
block == queue[1]

\* (a fit test that lets one unit too many through)
FitsLoose(h, rem) == h <= rem + 1
\* "h <= remaining": the fit test of a measured height
Fits(h, rem) == h <= rem

\* (a break that stays in the region)
NextRegionStay ==
    /\ ri' = ri
    /\ pc' = "loop"
\* break, or the end of the while loop: on to the next region
NextRegion ==
    /\ ri' = ri + 1
    /\ pc' = "region"

\* wrap.appendChild(el) for each of els, which measured h together; h is
\* recorded on the first of them.
AppendChild(els, h, frag, pair) ==
    content' = [content EXCEPT ![ri] =
                  @ \o [k \in 1..Len(els) |->
                          Placed(els[k], IF k = 1 THEN h ELSE 0,
                                 sandboxWidth, frag, pair,
                                 queue[k].orphanProtection)]]

\* (a single shift)
ShiftOne(q) == Tail(q)
\* queue.shift(); queue.shift();
ShiftTwo(q) == Tail(Tail(q))

\* (an early return for an empty block list only)
NothingToFlowBlocksOnly(nb, nr) == nb = 0
\* flow(), line 281: no blocks or no regions, return
NothingToFlow(nb, nr) == nb = 0 \/ nr = 0

\* flow(), lines 280-292: the early return, clearRegions(), the queue.
FlowBegin ==
    /\ pass' = pass + 1
    /\ splitLog' = {}
    /\ IF NothingToFlow(Len(blocks), Len(regions))
       THEN /\ pc' = "done"
            /\ firstPass' = IF pass = 0 THEN content ELSE firstPass
            /\ UNCHANGED <<content, queue, ri, used>>
       ELSE /\ content' = ClearRegions(content)
            /\ queue' = QueueCopy(blocks)
            /\ ri' = 1
            /\ used' = 0
            /\ pc' = "region"
            /\ UNCHANGED firstPass
    /\ UNCHANGED <<engine, blocks, regions, sandboxWidth>>
    /\ UNCHANGED <<pageVars, splitVars, unitVars>>

\* The flow pass that init() starts.
StartFlow ==
    /\ pc = "idle"
    /\ FlowBegin

\* A later flow pass on the same blocks, regions and geometry.
Reflow ==
    /\ pc = "done"
    /\ pass < MaxPasses
    /\ FlowBegin

\* The head of the for loop: the end of the pass, a region without usable
\* dimensions (continue), or the sandbox set to the region's width.  Every
\* region of this.regions got its wrapper from scanRegions(), so the test
\* for a missing wrapper never holds.
EnterRegion ==
    /\ pc = "region"
    /\ IF ri > Len(regions)
       THEN /\ pc' = "done"
            /\ firstPass' = IF pass = 1 THEN content ELSE firstPass
            /\ UNCHANGED <<ri, used, sandboxWidth>>
       ELSE IF availableHeight <= 0 \/ innerWidth <= 0
       THEN /\ ri' = ri + 1
            /\ UNCHANGED <<pc, used, sandboxWidth, firstPass>>
       ELSE /\ sandboxWidth' = innerWidth
            /\ used' = 0
            /\ pc' = "loop"
            /\ UNCHANGED <<ri, firstPass>>
    /\ UNCHANGED <<engine, blocks, regions, content, queue, pass, splitLog>>
    /\ UNCHANGED <<pageVars, splitVars, unitVars>>

\* while (queue.length > 0) fails, or remaining <= 0: break.
ExitLoop ==
    /\ pc = "loop"
    /\ Len(queue) = 0 \/ remaining <= 0
    /\ NextRegion
    /\ UNCHANGED <<engine, blocks, regions, content, queue, used, pass,
                   sandboxWidth, firstPass, splitLog>>
    /\ UNCHANGED <<pageVars, splitVars, unitVars>>

\* (no keep-with-next branch at all)
TakesKeepWithNextNever == FALSE
\* Whether the keep-with-next branch is taken (intro.js line 326;
\* text-flow-intro.js has no such branch).
TakesKeepWithNext ==
    engine = "intro" /\ block.keepWithNext /\ Len(queue) >= 2

\* intro.js lines 325-348: the pair goes in together or the region is left.
KeepWithNext ==
    /\ pc = "loop"
    /\ Len(queue) > 0 /\ remaining > 0
    /\ TakesKeepWithNext
    /\ LET elA == ElFactory(block, block.text)
           elB == ElFactory(queue[2], queue[2].text)
           heightTogether == MeasureHeight(<<elA, elB>>, sandboxWidth)
       IN  IF Fits(heightTogether, remaining)
           THEN /\ AppendChild(<<elA, elB>>, heightTogether, FALSE, TRUE)
                /\ used' = used + heightTogether
                /\ queue' = ShiftTwo(queue)
                /\ UNCHANGED <<ri, pc>>
           ELSE /\ NextRegion
                /\ UNCHANGED <<content, used, queue>>
    /\ UNCHANGED <<engine, blocks, regions, pass, sandboxWidth, firstPass,
                   splitLog>>
    /\ UNCHANGED <<pageVars, splitVars, unitVars>>

\* The single block fit check succeeds: the head block is placed whole.
PlaceSingle ==
    /\ pc = "loop"
    /\ Len(queue) > 0 /\ remaining > 0
    /\ ~TakesKeepWithNext
    /\ LET el == ElFactory(block, block.text)
           h == MeasureHeight(<<el>>, sandboxWidth)
       IN  /\ Fits(h, remaining)
           /\ AppendChild(<<el>>, h, FALSE, FALSE)
           /\ used' = used + h
           /\ queue' = Tail(queue)
    /\ UNCHANGED <<engine, blocks, regions, ri, pc, pass, sandboxWidth,
                   firstPass, splitLog>>
    /\ UNCHANGED <<pageVars, splitVars, unitVars>>

\* A heading that does not fit: break.
DeferHeading ==
    /\ pc = "loop"
    /\ Len(queue) > 0 /\ remaining > 0
    /\ ~TakesKeepWithNext
    /\ ~Fits(MeasureHeight(<<ElFactory(block, block.text)>>, sandboxWidth),
             remaining)
    /\ block.type # "paragraph"
    /\ NextRegion
    /\ UNCHANGED <<engine, blocks, regions, content, queue, used, pass,
                   sandboxWidth, firstPass, splitLog>>
    /\ UNCHANGED <<pageVars, splitVars, unitVars>>

\* (the rest written to the last entry of the queue)
KeepRestLast(q, rest) == [q EXCEPT ![Len(q)].text = rest]
\* block.text = restText, block being queue[0]
KeepRest(q, rest) == [q EXCEPT ![1].text = rest]

\* A paragraph that does not fit: splitParagraph, then either break
\* (nothing fits, or the fragment measures taller than the space left) or
\* the fragment is placed and the queue head keeps the rest.
SplitStep ==
    /\ pc = "loop"
    /\ Len(queue) > 0 /\ remaining > 0
    /\ ~TakesKeepWithNext
    /\ ~Fits(MeasureHeight(<<ElFactory(block, block.text)>>, sandboxWidth),
             remaining)
    /\ block.type = "paragraph"
    /\ LET split == SplitParagraph(engine, block, sandboxWidth, remaining)
           fragEl == ElFactory(block, split.firstText)
           fragHeight == MeasureHeight(<<fragEl>>, sandboxWidth)
       IN  /\ splitLog' = splitLog \cup
                 {[id |-> block.id, type |-> block.type,
                   op |-> block.orphanProtection, width |-> sandboxWidth,
                   before |-> Words(block.text),
                   fitsWords |-> split.fitsWords,
                   first |-> Words(split.firstText),
                   rest |-> Words(split.restText),
                   placed |-> split.fitsWords # 0
                              /\ Fits(fragHeight, remaining)]}
           /\ IF split.fitsWords = 0
              THEN /\ NextRegion
                   /\ UNCHANGED <<content, used, queue, blocks>>
              ELSE IF Fits(fragHeight, remaining)
              THEN /\ AppendChild(<<fragEl>>, fragHeight, TRUE, FALSE)
                   /\ used' = used + fragHeight
                   /\ queue' = KeepRest(queue, split.restText)
                   /\ blocks' = WriteText(blocks, block, split.restText)
                   /\ UNCHANGED <<ri, pc>>
              ELSE /\ NextRegion
                   /\ UNCHANGED <<content, used, queue, blocks>>
    /\ UNCHANGED <<engine, regions, pass, sandboxWidth, firstPass>>
    /\ UNCHANGED <<pageVars, splitVars, unitVars>>

Next ==
    \/ InitEngine
    \/ StartFlow
    \/ EnterRegion
    \/ ExitLoop
    \/ KeepWithNext
    \/ PlaceSingle
    \/ DeferHeading
    \/ SplitStep

Spec == Init /\ [][Next]_vars

\* The intro.js engine
InitIntro == Init /\ engine = "intro"

\* The documents whose paragraphs are the longest: the passes with the most
\* steps.
LongContents ==
    {raw \in RawContents :
        \A i \in 1..Len(raw) :
            raw[i].type = "paragraph" => Len(Words(raw[i].text)) = MaxWords}

InitEngineLong == InitEngineFrom(LongContents)

NextLive ==
    \/ InitEngineLong
    \/ StartFlow
    \/ EnterRegion
    \/ ExitLoop
    \/ KeepWithNext
    \/ PlaceSingle
    \/ DeferHeading
    \/ SplitStep

\* flow() is synchronous: once called it runs on, step after step.
SpecLive == InitIntro /\ [][NextLive]_vars /\ WF_vars(NextLive)

\* The intro.js engine with repeated passes.
NextReflow == Next \/ Reflow
SpecReflow == InitIntro /\ [][NextReflow]_vars

-----------------------------------------------------------------------------
(***************************************************************************)
(* The page script of js/intro.js: initLayout(), the debounced resize      *)
(* listener of the page and the resize handlers of the engine.  A flow     *)
(* pass is one step here.  Timers hold the time left until they fire.      *)
(***************************************************************************)
Min(a, b) == IF a <= b THEN a ELSE b

RemoveAt(q, i) == SubSeq(q, 1, i - 1) \o SubSeq(q, i + 1, Len(q))

\* No timer is armed and no initLayout() call is under way.
Quiescent ==
    /\ pageTimer = NoTimer
    /\ \A k \in 1..Len(handlers) : handlers[k] = NoTimer
    /\ calls = <<>>

\* scanRegions(): the visible regions of the document, in the order of
\* their data-flow-order, which is the order of their numbers.
ScanRegions(vis) ==
    SelectSeq([k \in 1..MaxPageRegions |-> k], LAMBDA r : r \in vis)

\* this.flow() is called by init() or by a resize handler of the engine
\* (by), on nb blocks and the region list rs; fonts: the wait for the fonts
\* was over, ld: how the last load ended.  Unless flow() returns at once, a
\* flow pass runs (ran); fresh: rs is what a scan at this call would give.
FlowPass(by, fonts, nb, rs, ld) ==
    LET ran == ~NothingToFlow(nb, Len(rs))
    IN  /\ burstPasses' = IF ran THEN Min(burstPasses + 1, MaxCount)
                          ELSE burstPasses
        /\ earlyPass' = (earlyPass \/ (ran /\ track = "burst"
                                           /\ sinceResize < DebounceMs))
        /\ lastPass' = [by |-> by, fonts |-> fonts, load |-> ld, ran |-> ran,
                        fresh |-> (rs = ScanRegions(visible))]

\* debounce(fn, delay), on an event: clearTimeout(t); t = setTimeout(...)
Debounced(t, delay) == delay

\* attachResize(): a new debounced handler is added to the window.
AttachResize(hs) == Append(hs, NoTimer)

\* (init() that does not wait for the fonts)
AwaitPointSkip(ready) == "load"
\* init(): await this.waitForFonts() waits for document.fonts.ready unless
\* it has resolved, then await this.loadContent() waits for the fetch.
AwaitPoint(ready) == IF ready THEN "load" ELSE "fonts"

\* initLayout() up to its first await, or to its end if it awaits nothing.
\* first: the call of the DOMContentLoaded handler, which registers the
\* resize listener of the page once the call has returned.
BeginInitLayout(first) ==
    IF wide
    THEN /\ calls' = Append(calls, [path |-> "flow", first |-> first,
                                    at |-> AwaitPoint(fontsLoaded),
                                    fonts |-> fontsLoaded])
         /\ UNCHANGED listening
    ELSE IF ~hasContent
    THEN /\ calls' = Append(calls, [path |-> "traditional", first |-> first,
                                    at |-> "load", fonts |-> FALSE])
         /\ UNCHANGED listening
    ELSE /\ calls' = calls
         /\ listening' = (listening \/ first)

\* document.addEventListener('DOMContentLoaded', ...): await initLayout()
DomContentLoaded ==
    /\ ~booted
    /\ booted' = TRUE
    /\ BeginInitLayout(TRUE)
    /\ UNCHANGED <<wide, fontsLoaded, hasContent, pageTimer, handlers,
                   sinceResize, track, burstPasses, earlyPass, thrown>>
    /\ UNCHANGED <<visible, scanned, blockCount, lastLoad, lastPass>>
    /\ UNCHANGED <<flowVars, splitVars, unitVars>>

\* document.fonts.ready resolves: every waitForFonts() returns and
\* loadContent() starts its fetch.
FontsReady ==
    /\ ~fontsLoaded
    /\ \E i \in 1..Len(calls) : calls[i].at = "fonts"
    /\ fontsLoaded' = TRUE
    /\ calls' = [i \in 1..Len(calls) |->
                   IF calls[i].at = "fonts"
                   THEN [calls[i] EXCEPT !.at = "load", !.fonts = TRUE]
                   ELSE calls[i]]
    /\ UNCHANGED <<booted, wide, hasContent, listening, pageTimer, handlers,
                   sinceResize, track, burstPasses, earlyPass, thrown>>
    /\ UNCHANGED <<visible, scanned, blockCount, lastLoad, lastPass>>
    /\ UNCHANGED <<flowVars, splitVars, unitVars>>

\* loadContent() returns: a load that went well (ok) set this.content and
\* this.blocks (n blocks); one that failed wrote its message and left both.
LoadContent(ok, n) ==
    /\ ok \/ n = 0
    /\ hasContent' = (hasContent \/ ok)
    /\ blockCount' = IF ok THEN n ELSE blockCount
    /\ lastLoad' = IF ok THEN "ok" ELSE "failed"

\* The fetch of a flow.init() call ends, well (ok) or not: loadContent()
\* returns, then scanRegions(), createSandbox(), flow(), attachResize().
InitLoaded ==
    /\ \E i \in 1..Len(calls), ok \in BOOLEAN, n \in 0..MaxPageBlocks :
         /\ calls[i].at = "load" /\ calls[i].path = "flow"
         /\ LoadContent(ok, n)
         /\ scanned' = ScanRegions(visible)
         /\ FlowPass("init", calls[i].fonts, blockCount', scanned', lastLoad')
         /\ handlers' = AttachResize(handlers)
         /\ listening' = (listening \/ calls[i].first)
         /\ calls' = RemoveAt(calls, i)
    /\ UNCHANGED <<booted, wide, fontsLoaded, pageTimer, sinceResize, track,
                   thrown, visible>>
    /\ UNCHANGED <<flowVars, splitVars, unitVars>>

\* The fetch of the loadContent() of a narrow initLayout() ends:
\* flow.blocks = flow.buildBlocks(flow.content) throws if flow.content is
\* still null, else renderTraditionalLayout(flow.blocks).
TraditionalLoaded ==
    /\ \E i \in 1..Len(calls), ok \in BOOLEAN, n \in 0..MaxPageBlocks :
         /\ calls[i].at = "load" /\ calls[i].path = "traditional"
         /\ LoadContent(ok, n)
         /\ thrown' = (thrown \/ ~hasContent')
         /\ listening' = (listening \/ (calls[i].first /\ hasContent'))
         /\ calls' = RemoveAt(calls, i)
    /\ UNCHANGED <<booted, wide, fontsLoaded, pageTimer, handlers,
                   sinceResize, track, burstPasses, earlyPass>>
    /\ UNCHANGED <<visible, scanned, lastPass>>
    /\ UNCHANGED <<flowVars, splitVars, unitVars>>

\* A resize event, to a wide or a narrow window, at which the style sheet
\* shows or hides regions: every registered listener restarts its timer.
Resize ==
    /\ booted
    /\ \E w \in BOOLEAN : wide' = w
    /\ \E v \in SUBSET (1..MaxPageRegions) : visible' = v
    /\ pageTimer' = IF listening THEN Debounced(pageTimer, PageDebounceMs)
                    ELSE pageTimer
    /\ handlers' = [k \in 1..Len(handlers) |->
                      Debounced(handlers[k], DebounceMs)]
    /\ sinceResize' = 0
    /\ IF /\ Quiescent /\ listening /\ Len(handlers) >= 1
          /\ ~NothingToFlow(blockCount, Len(scanned))
       THEN track' = "burst" /\ burstPasses' = 0 /\ earlyPass' = FALSE
       ELSE /\ track' = IF track = "burst" /\ sinceResize < DebounceMs
                        THEN "burst" ELSE "void"
            /\ UNCHANGED <<burstPasses, earlyPass>>
    /\ UNCHANGED <<booted, fontsLoaded, hasContent, calls, listening, thrown>>
    /\ UNCHANGED <<scanned, blockCount, lastLoad, lastPass>>
    /\ UNCHANGED <<flowVars, splitVars, unitVars>>

\* Time passes while no armed timer is due.
TimePasses ==
    /\ pageTimer # 0
    /\ \A k \in 1..Len(handlers) : handlers[k] # 0
    /\ pageTimer # NoTimer \/ \E k \in 1..Len(handlers) : handlers[k] # NoTimer
    /\ pageTimer' = IF pageTimer = NoTimer THEN NoTimer
                    ELSE Max(0, pageTimer - Tick)
    /\ handlers' = [k \in 1..Len(handlers) |->
                      IF handlers[k] = NoTimer THEN NoTimer
                      ELSE Max(0, handlers[k] - Tick)]
    /\ sinceResize' = Min(sinceResize + Tick, PageDebounceMs + Tick)
    /\ UNCHANGED <<booted, wide, fontsLoaded, hasContent, calls, listening,
                   track, burstPasses, earlyPass, thrown>>
    /\ UNCHANGED <<visible, scanned, blockCount, lastLoad, lastPass>>
    /\ UNCHANGED <<flowVars, splitVars, unitVars>>

\* A handler of the engine fires: "Resize -> reflow", this.flow().
HandlerFires ==
    /\ \E k \in 1..Len(handlers) :
         /\ handlers[k] = 0
         /\ handlers' = [handlers EXCEPT ![k] = NoTimer]
    /\ FlowPass("handler", fontsLoaded, blockCount, scanned, lastLoad)
    /\ UNCHANGED <<booted, wide, fontsLoaded, hasContent, calls, listening,
                   pageTimer, sinceResize, track, thrown>>
    /\ UNCHANGED <<visible, scanned, blockCount, lastLoad>>
    /\ UNCHANGED <<flowVars, splitVars, unitVars>>

\* The debounced listener of the page fires: initLayout().
PageTimerFires ==
    /\ pageTimer = 0
    /\ Len(handlers) + Len(calls) < MaxHandlers
    /\ pageTimer' = NoTimer
    /\ BeginInitLayout(FALSE)
    /\ UNCHANGED <<booted, wide, fontsLoaded, hasContent, handlers,
                   sinceResize, track, burstPasses, earlyPass, thrown>>
    /\ UNCHANGED <<visible, scanned, blockCount, lastLoad, lastPass>>
    /\ UNCHANGED <<flowVars, splitVars, unitVars>>

NextPage ==
    \/ DomContentLoaded
    \/ FontsReady
    \/ InitLoaded
    \/ TraditionalLoaded
    \/ Resize
    \/ TimePasses
    \/ HandlerFires
    \/ PageTimerFires

InitPageSpec ==
    InitFlow /\ engine = "intro" /\ InitPage /\ InitSplit /\ InitUnits
SpecPage == InitPageSpec /\ [][NextPage]_vars

-----------------------------------------------------------------------------
(***************************************************************************)
(* splitParagraph on its own: one call on a paragraph of up to MaxWords    *)
(* words, with any height of the measuring element for each number of      *)
(* leading words, any line height and any available height.                *)
(***************************************************************************)
\* block.orphanProtection as buildBlocks leaves it
SplitOps == {IF op >= 0 THEN op ELSE 2 : op \in OrphanValues}

\* The heights of the measuring element showing the first 1..n words
PrefixHeights(n) == [1..n -> 1..(MaxHeight + 1)]

\* this.splitParagraph(block, availableHeight) is called and returns.
CallSplit ==
    /\ splitCall = NoCall
    /\ \E n \in 0..MaxWords, i \in 1..2, op \in SplitOps,
          lh \in 1..MaxLineHeight, avail \in 0..MaxHeight :
         \E H \in PrefixHeights(n) :
            /\ splitCall' = [fn |-> "splitParagraph", text |-> RawText(i, n),
                             op |-> op, H |-> H, lineHeight |-> lh,
                             availableHeight |-> avail]
            /\ splitResult' =
                  IF engine = "intro"
                  THEN SplitParagraphIntro(RawText(i, n), op, H, lh, avail)
                  ELSE SplitParagraphTfi(RawText(i, n), op, H, lh, avail)
    /\ UNCHANGED <<flowVars, pageVars, unitVars>>

\* The caller has taken the result.
SplitReturn ==
    /\ splitCall # NoCall
    /\ splitCall' = NoCall
    /\ splitResult' = NoCall
    /\ UNCHANGED <<flowVars, pageVars, unitVars>>

NextSplit ==
    \/ CallSplit
    \/ SplitReturn

SpecSplit == Init /\ [][NextSplit]_vars

-----------------------------------------------------------------------------
(***************************************************************************)
(* scanRegions() on a document of up to MaxCandidates candidate elements,  *)
(* followed by the for loop of flow() over this.regions.  An element is a  *)
(* record of its data-flow-order attribute, its computed style and its     *)
(* children; a child is a record [cls, items], a flow-content wrapper or   *)
(* another element, and an item is the number of the scan after which it   *)
(* was written (0: content the document came with).                        *)
(***************************************************************************)
\* The computed styles of a candidate
Styles ==
    { [display |-> "block", visibility |-> "visible", opacity |-> "1"],
      [display |-> "block", visibility |-> "visible", opacity |-> "0.5"],
      [display |-> "none", visibility |-> "visible", opacity |-> "1"],
      [display |-> "block", visibility |-> "hidden", opacity |-> "1"],
      [display |-> "block", visibility |-> "visible", opacity |-> "0"] }

\* document.createElement('div') with className 'flow-content'
NewWrapper == [cls |-> "flow-content", items |-> <<>>]

\* What a candidate holds when the document arrives: nothing, or a wrapper
\* with content followed by another element
PriorChildren ==
    { <<>>,
      <<[cls |-> "flow-content", items |-> <<0>>],
        [cls |-> "other", items |-> <<0>>]>> }

\* The candidate elements of a document
Elements ==
    [hasOrder : BOOLEAN, order : 0..MaxOrder, style : Styles,
     children : PriorChildren]

\* The documents: the attribute value of an element without the attribute
\* is written 0 and never read
Documents ==
    UNION { { d \in [1..n -> Elements] :
                \A k \in 1..n : ~d[k].hasOrder => d[k].order = 0 } :
            n \in 0..MaxCandidates }

\* style.display !== 'none' && style.visibility !== 'hidden' &&
\* style.opacity !== '0'
IsVisible(el) ==
    /\ el.style.display # "none"
    /\ el.style.visibility # "hidden"
    /\ el.style.opacity # "0"

\* Number(el.getAttribute('data-flow-order') || '0')
FlowOrder(el) == IF el.hasOrder THEN el.order ELSE 0

\* nodes.filter(...): the indexes of the visible candidates, document order
RECURSIVE VisibleNodes(_, _)
VisibleNodes(doc, k) ==
    IF k > Len(doc) THEN <<>>
    ELSE (IF IsVisible(doc[k]) THEN <<k>> ELSE <<>>)
         \o VisibleNodes(doc, k + 1)

\* (a sort that puts an element before the elements of equal order)
RECURSIVE InsertBeforeEqual(_, _, _)
InsertBeforeEqual(doc, s, x) ==
    IF s = <<>> THEN <<x>>
    ELSE IF FlowOrder(doc[s[Len(s)]]) - FlowOrder(doc[x]) < 0
         THEN Append(s, x)
         ELSE Append(InsertBeforeEqual(doc, SubSeq(s, 1, Len(s) - 1), x),
                     s[Len(s)])

\* sort((a, b) => a.order - b.order), one insertion: x goes behind every
\* element the comparison does not put after it (Array.prototype.sort is
\* stable)
RECURSIVE InsertByOrder(_, _, _)
InsertByOrder(doc, s, x) ==
    IF s = <<>> THEN <<x>>
    ELSE IF FlowOrder(doc[s[Len(s)]]) - FlowOrder(doc[x]) <= 0
         THEN Append(s, x)
         ELSE Append(InsertByOrder(doc, SubSeq(s, 1, Len(s) - 1), x),
                     s[Len(s)])

RECURSIVE SortTiesReversed(_, _)
SortTiesReversed(doc, s) ==
    IF s = <<>> THEN <<>>
    ELSE InsertBeforeEqual(doc,
             SortTiesReversed(doc, SubSeq(s, 1, Len(s) - 1)), s[Len(s)])

\* visibleNodes.map(...).sort((a, b) => a.order - b.order).map(...)
RECURSIVE SortByOrder(_, _)
SortByOrder(doc, s) ==
    IF s = <<>> THEN <<>>
    ELSE InsertByOrder(doc,
             SortByOrder(doc, SubSeq(s, 1, Len(s) - 1)), s[Len(s)])

\* (the region left as it is)
ResetRegionNot(el) == el
\* region.innerHTML = ''; region.appendChild(wrap)
ResetRegion(el) == [el EXCEPT !.children = <<NewWrapper>>]

\* region.querySelector('.flow-content'): the index of the first wrapper
\* among the children, 0 if there is none
FlowContentOf(el) ==
    IF \E c \in DOMAIN el.children : el.children[c].cls = "flow-content"
    THEN CHOOSE c \in DOMAIN el.children :
           /\ el.children[c].cls = "flow-content"
           /\ \A b \in 1..(c - 1) : el.children[b].cls # "flow-content"
    ELSE 0

\* wrap.innerHTML = '' in clearRegions()
ClearWrapper(el) ==
    IF FlowContentOf(el) = 0 THEN el
    ELSE [el EXCEPT !.children[FlowContentOf(el)].items = <<>>]

\* wrap.appendChild(...) in flow(): one more item in the wrapper
WriteInto(el, item) ==
    IF FlowContentOf(el) = 0 THEN el
    ELSE [el EXCEPT !.children[FlowContentOf(el)].items = Append(@, item)]

otherThanScan ==
    <<flowVars, pageVars, splitVars, buildVars, sandboxVars,
      wheelVars, destroyVars,
      algoVars, overflowVars, navVars>>

\* The page's document arrives.
LoadDocument ==
    /\ scanPc = "new"
    /\ \E doc \in Documents : candidates' = doc
    /\ scanPc' = "dom"
    /\ UNCHANGED <<regionNodes, visits, scanNo>>
    /\ UNCHANGED otherThanScan

\* scanRegions(), called by init(), for the first time or again.
ScanRegionsCall ==
    /\ scanPc \in {"dom", "flowed"}
    /\ scanNo < MaxScans
    /\ LET ordered == SortByOrder(candidates, VisibleNodes(candidates, 1))
           listed == {ordered[i] : i \in DOMAIN ordered}
       IN  /\ regionNodes' = ordered
           /\ candidates' = [k \in DOMAIN candidates |->
                               IF k \in listed
                               THEN ResetRegion(candidates[k])
                               ELSE candidates[k]]
    /\ scanNo' = scanNo + 1
    /\ visits' = <<>>
    /\ scanPc' = "scanned"
    /\ UNCHANGED otherThanScan

\* flow() begins with some blocks to place: early return without regions,
\* else clearRegions().
ScanFlowBegin ==
    /\ scanPc = "scanned"
    /\ IF Len(regionNodes) = 0
       THEN /\ scanPc' = "flowed"
            /\ UNCHANGED candidates
       ELSE /\ scanPc' = "flow"
            /\ candidates' = [k \in DOMAIN candidates |->
                                IF \E i \in DOMAIN regionNodes :
                                       regionNodes[i] = k
                                THEN ClearWrapper(candidates[k])
                                ELSE candidates[k]]
    /\ UNCHANGED <<regionNodes, visits, scanNo>>
    /\ UNCHANGED otherThanScan

\* One turn of the for loop of flow(): region this.regions[i] is visited
\* and the while loop appends some blocks (n of them) to its wrapper.
ScanFlowVisit ==
    /\ scanPc = "flow"
    /\ Len(visits) < Len(regionNodes)
    /\ LET k == regionNodes[Len(visits) + 1]
       IN  /\ visits' = Append(visits, k)
           /\ \E n \in 0..1 :
                candidates' =
                   IF n = 0 THEN candidates
                   ELSE [candidates EXCEPT ![k] = WriteInto(@, scanNo)]
    /\ UNCHANGED <<regionNodes, scanNo, scanPc>>
    /\ UNCHANGED otherThanScan

\* The for loop of flow() ends.
ScanFlowEnd ==
    /\ scanPc = "flow"
    /\ Len(visits) = Len(regionNodes)
    /\ scanPc' = "flowed"
    /\ UNCHANGED <<candidates, regionNodes, visits, scanNo>>
    /\ UNCHANGED otherThanScan

NextScan ==
    \/ LoadDocument
    \/ ScanRegionsCall
    \/ ScanFlowBegin
    \/ ScanFlowVisit
    \/ ScanFlowEnd

SpecScan == Init /\ [][NextScan]_vars

-----------------------------------------------------------------------------
(***************************************************************************)
(* buildBlocks() on raw lists of up to MaxRawBlocks records whose fields   *)
(* may be missing: id 0 stands for a missing (or empty) id, level 0 for a  *)
(* missing level, orphanProtection -1 for a missing or non-numeric one,    *)
(* type "none" for a missing type, the empty text for a missing text;     *)
(* no record has keepWithNext.                                             *)
(***************************************************************************)
RawRecords ==
    [type : {"heading", "paragraph", "image", "none"},
     id : {0, 101, 102},
     level : {0, 3},
     text : {<<>>, RawText(1, 1)},
     keepWithNext : {FALSE},
     orphanProtection : {-1, 3}]

RawLists == UNION {[1..n -> RawRecords] : n \in 0..MaxRawBlocks}

otherThanBuild ==
    <<flowVars, pageVars, splitVars, scanVars, sandboxVars,
      wheelVars, destroyVars,
      algoVars, overflowVars, navVars>>

\* loadContent() has parsed a document: json.blocks
LoadJson ==
    /\ buildPc = "new"
    /\ \E raw \in RawLists : json' = raw
    /\ buildPc' = "loaded"
    /\ UNCHANGED built
    /\ UNCHANGED otherThanBuild

\* this.blocks = this.buildBlocks(json)
BuildBlocksCall ==
    /\ buildPc = "loaded"
    /\ built' = BuildBlocks(json)
    /\ buildPc' = "built"
    /\ UNCHANGED json
    /\ UNCHANGED otherThanBuild

NextBuild ==
    \/ LoadJson
    \/ BuildBlocksCall

SpecBuild == Init /\ [][NextBuild]_vars

-----------------------------------------------------------------------------
(***************************************************************************)
(* The measurement sandbox of one engine instance: createSandbox(),        *)
(* measureHeight(), splitParagraph(), the width flow() sets and destroy(). *)
(* A child of the sandbox is a record [m, words]: the number of the        *)
(* measurement that put it there and the words it shows.                   *)
(***************************************************************************)
\* this.sandbox = null
NoSandbox == [cls |-> "none"]

\* The element createSandbox() makes
NewSandbox ==
    [cls |-> "measure-sandbox",
     style |-> [width |-> 1000, position |-> "absolute",
                visibility |-> "hidden", left |-> -99999, top |-> 0,
                pointerEvents |-> "none"],
     children |-> <<>>,
     inBody |-> TRUE]

\* (the children left as they are)
InnerHtmlKept(sb) == sb
\* sb.innerHTML = ''
InnerHtmlEmpty(sb) == [sb EXCEPT !.children = <<>>]

\* createSandbox(): nothing if this.sandbox is set; else a new element in
\* the body, a test paragraph appended and removed again.
CreateSandbox(sb) ==
    IF sb # NoSandbox THEN sb
    ELSE InnerHtmlEmpty([NewSandbox EXCEPT
                            !.children = <<[m |-> 0, words |-> 1]>>])

otherThanSandbox ==
    <<flowVars, pageVars, splitVars, scanVars, buildVars,
      wheelVars, destroyVars,
      algoVars, overflowVars, navVars>>

\* createSandbox() is called, by init() or by anyone.
CreateSandboxCall ==
    /\ sbPc = "idle"
    /\ sandbox' = CreateSandbox(sandbox)
    /\ sandboxCount' = IF sandbox = NoSandbox THEN sandboxCount + 1
                       ELSE sandboxCount
    /\ createCalls' = Min(createCalls + 1, MaxCount)
    /\ UNCHANGED <<measureNo, sbPc>>
    /\ UNCHANGED otherThanSandbox

\* flow(): this.sandbox.style.width = `${innerWidth}px`
SetSandboxWidth ==
    /\ sbPc = "idle"
    /\ sandbox # NoSandbox
    /\ \E w \in 1..MaxWidth : sandbox' = [sandbox EXCEPT !.style.width = w]
    /\ UNCHANGED <<sandboxCount, createCalls, measureNo, sbPc>>
    /\ UNCHANGED otherThanSandbox

\* measureHeight(nodes): the sandbox is made if missing and emptied, its
\* width set to its own width; the clones are measured in a temporary
\* container, which is removed before the return.
MeasureHeightCall ==
    /\ sbPc = "idle"
    /\ measureNo < MaxMeasures
    /\ sandbox' = InnerHtmlEmpty(CreateSandbox(sandbox))
    /\ sandboxCount' = IF sandbox = NoSandbox THEN sandboxCount + 1
                       ELSE sandboxCount
    /\ measureNo' = measureNo + 1
    /\ UNCHANGED <<createCalls, sbPc>>
    /\ UNCHANGED otherThanSandbox

\* splitParagraph(block, availableHeight) begins: a text without words
\* returns at once; else the sandbox is emptied and measureP appended.
SplitParagraphBegin ==
    /\ sbPc = "idle"
    /\ sandbox # NoSandbox
    /\ measureNo < MaxMeasures
    /\ \E n \in 0..MaxWords :
         IF n = 0
         THEN UNCHANGED <<sandbox, measureNo, sbPc>>
         ELSE /\ sandbox' =
                   [InnerHtmlEmpty(sandbox) EXCEPT
                       !.children = <<[m |-> measureNo + 1, words |-> 0]>>]
              /\ measureNo' = measureNo + 1
              /\ sbPc' = "split"
    /\ UNCHANGED <<sandboxCount, createCalls>>
    /\ UNCHANGED otherThanSandbox

\* measureP.textContent = words.slice(0, mid).join(' ')
SplitParagraphMeasure ==
    /\ sbPc = "split"
    /\ \E mid \in 1..MaxWords :
         sandbox' = [sandbox EXCEPT !.children[1].words = mid]
    /\ UNCHANGED <<sandboxCount, createCalls, measureNo, sbPc>>
    /\ UNCHANGED otherThanSandbox

\* splitParagraph returns; measureP stays in the sandbox.
SplitParagraphEnd ==
    /\ sbPc = "split"
    /\ sbPc' = "idle"
    /\ UNCHANGED <<sandbox, sandboxCount, createCalls, measureNo>>
    /\ UNCHANGED otherThanSandbox

\* destroy(): the sandbox leaves the document; this.sandbox keeps it.
DestroySandbox ==
    /\ sbPc = "idle"
    /\ sandbox # NoSandbox
    /\ sandbox.inBody
    /\ sandbox' = [sandbox EXCEPT !.inBody = FALSE]
    /\ UNCHANGED <<sandboxCount, createCalls, measureNo, sbPc>>
    /\ UNCHANGED otherThanSandbox

NextSandbox ==
    \/ CreateSandboxCall
    \/ SetSandboxWidth
    \/ MeasureHeightCall
    \/ SplitParagraphBegin
    \/ SplitParagraphMeasure
    \/ SplitParagraphEnd
    \/ DestroySandbox

SpecSandbox == Init /\ [][NextSandbox]_vars

-----------------------------------------------------------------------------
(***************************************************************************)
(* js/stoic-drama.js: the wheel listeners initHorizontalScroll() adds at   *)
(* DOMContentLoaded and at every resize.  All listeners run the same       *)
(* function, so more than MaxCount of them are counted as MaxCount.        *)
(***************************************************************************)
\* The widths a window takes: below, at and above the 768px threshold
Widths == {600, 768, 769, 1200}

\* e.deltaX and e.deltaY of a wheel event
Deltas == {-2, 0, 2}

Abs(x) == IF x < 0 THEN -x ELSE x

\* No wheel event has been dispatched yet.
NoWheel == [width |-> 0]

\* (a listener is added at any width)
AddsWheelListenerAlways(w) == TRUE
\* if (window.innerWidth > 768)
AddsWheelListener(w) == w > 768

\* initHorizontalScroll(): one more wheel listener on a wide window
InitHorizontalScroll(n, w) ==
    IF AddsWheelListener(w) THEN Min(n + 1, MaxCount) ELSE n

\* One wheel listener on the event e: nothing for a mainly horizontal
\* movement, else e.preventDefault() and window.scrollBy(e.deltaY * 1.5, 0)
ListenerPrevents(e) == ~(Abs(e.deltaX) > Abs(e.deltaY))
ListenerScrollBy(e) ==
    IF Abs(e.deltaX) > Abs(e.deltaY) THEN 0 ELSE (e.deltaY * 3) \div 2

otherThanWheel ==
    <<flowVars, pageVars, splitVars, scanVars, buildVars, sandboxVars,
      destroyVars,
      algoVars, overflowVars, navVars>>

\* DOMContentLoaded: initHorizontalScroll(), then the resize listener.
StoicLoaded ==
    /\ ~stoicLoaded
    /\ stoicLoaded' = TRUE
    /\ \E w \in Widths :
         /\ innerWidthPx' = w
         /\ wheelListeners' = InitHorizontalScroll(0, w)
    /\ UNCHANGED <<scrollX, lastWheel>>
    /\ UNCHANGED otherThanWheel

\* The window is resized: the resize listener calls initHorizontalScroll().
StoicResize ==
    /\ stoicLoaded
    /\ \E w \in Widths :
         /\ innerWidthPx' = w
         /\ wheelListeners' = InitHorizontalScroll(wheelListeners, w)
    /\ UNCHANGED <<stoicLoaded, scrollX, lastWheel>>
    /\ UNCHANGED otherThanWheel

\* A wheel event is dispatched to every wheel listener on window.
Wheel ==
    /\ stoicLoaded
    /\ \E dx \in Deltas, dy \in Deltas :
         LET e == [deltaX |-> dx, deltaY |-> dy]
             by == wheelListeners * ListenerScrollBy(e)
         IN  /\ lastWheel' =
                   [width |-> innerWidthPx, deltaX |-> dx, deltaY |-> dy,
                    prevented |-> wheelListeners > 0 /\ ListenerPrevents(e),
                    scrolledBy |-> by]
             /\ scrollX' = Max(0, Min(MaxScroll, scrollX + by))
    /\ UNCHANGED <<stoicLoaded, innerWidthPx, wheelListeners>>
    /\ UNCHANGED otherThanWheel

NextWheel ==
    \/ StoicLoaded
    \/ StoicResize
    \/ Wheel

SpecWheel == Init /\ [][NextWheel]_vars

-----------------------------------------------------------------------------
(***************************************************************************)
(* init(), the resize handlers it attaches, and destroy(), on one engine   *)
(* instance.  Handler k is the k-th that attachResize() made; time is left *)
(* out: an armed timer fires at some later step.                           *)
(***************************************************************************)
otherThanDestroy ==
    <<flowVars, pageVars, splitVars, scanVars, buildVars, sandboxVars,
      wheelVars,
      algoVars, overflowVars, navVars>>

\* init() is called and waits for the fonts and the content.
InitCalled ==
    /\ ~destroyed
    /\ initsPending + Len(timers) < MaxHandlers
    /\ initsPending' = initsPending + 1
    /\ UNCHANGED <<listeners, timers, resizeHandler, destroyed, flowable,
                   lateArmed, latePass, pendingAtDestroy>>
    /\ UNCHANGED otherThanDestroy

\* The awaits of an init() are over: the load has set this.blocks or failed,
\* scanRegions(), createSandbox(), flow(), and attachResize() adds a new
\* handler and makes it this.resizeHandler.
InitCompleted ==
    /\ initsPending > 0
    /\ initsPending' = initsPending - 1
    /\ \E ok \in BOOLEAN : flowable' = (flowable \/ ok)
    /\ timers' = AttachResize(timers)
    /\ listeners' = Append(listeners, TRUE)
    /\ resizeHandler' = Len(timers) + 1
    /\ UNCHANGED <<destroyed, lateArmed, latePass, pendingAtDestroy>>
    /\ UNCHANGED otherThanDestroy

\* destroy(): window.removeEventListener('resize', this.resizeHandler)
DestroyCalled ==
    /\ destroyed' = TRUE
    /\ pendingAtDestroy' = IF destroyed THEN pendingAtDestroy
                           ELSE initsPending > 0
    /\ listeners' = IF resizeHandler = 0 THEN listeners
                    ELSE [listeners EXCEPT ![resizeHandler] = FALSE]
    /\ UNCHANGED <<initsPending, timers, resizeHandler, flowable, lateArmed,
                   latePass>>
    /\ UNCHANGED otherThanDestroy

\* A resize event: every handler still on the window restarts its timer.
ResizeEvent ==
    /\ timers' = [k \in 1..Len(timers) |->
                    IF listeners[k] THEN Debounced(timers[k], DebounceMs)
                    ELSE timers[k]]
    /\ lateArmed' = IF destroyed
                    THEN lateArmed \cup {k \in 1..Len(timers) : listeners[k]}
                    ELSE lateArmed
    /\ UNCHANGED <<initsPending, listeners, resizeHandler, destroyed,
                   flowable, latePass, pendingAtDestroy>>
    /\ UNCHANGED otherThanDestroy

\* The timer of a handler fires: this.flow(), a pass unless flow() has
\* nothing to place.
DebouncedFlow ==
    /\ \E k \in 1..Len(timers) :
         /\ timers[k] # NoTimer
         /\ timers' = [timers EXCEPT ![k] = NoTimer]
         /\ lateArmed' = lateArmed \ {k}
         /\ latePass' = (latePass \/ (k \in lateArmed /\ flowable))
    /\ UNCHANGED <<initsPending, listeners, resizeHandler, destroyed,
                   flowable, pendingAtDestroy>>
    /\ UNCHANGED otherThanDestroy

NextDestroy ==
    \/ InitCalled
    \/ InitCompleted
    \/ DestroyCalled
    \/ ResizeEvent
    \/ DebouncedFlow

SpecDestroy == Init /\ [][NextDestroy]_vars

-----------------------------------------------------------------------------
(***************************************************************************)
(* js/algorithm.js: initLayout() at DOMContentLoaded and, debounced, at    *)
(* every resize.  A call that awaits is kept in algoCalls until the await  *)
(* is over; several calls may be waiting at once.  Time is left out: the   *)
(* timer the page's listener arms fires at some later step.                *)
(***************************************************************************)
\* clearTraditional(): traditionalContainer.innerHTML = ''
ClearTraditional(d) == [d EXCEPT !.tradFilled = FALSE]

\* renderTraditionalLayout(blocks): the container gets the blocks and the
\* blockquote and is shown; every .region gets style.display = 'none'
RenderTraditionalLayout(d) ==
    [d EXCEPT !.tradFilled = TRUE, !.tradHidden = FALSE,
              !.regionsHidden = TRUE]

\* showContentLayout(): the container is hidden by its class; every .region
\* gets style.display = ''
ShowContentLayout(d) == [d EXCEPT !.tradHidden = TRUE, !.regionsHidden = FALSE]

otherThanAlgo ==
    <<flowVars, pageVars, splitVars, scanVars, buildVars, sandboxVars,
      wheelVars, destroyVars, overflowVars, navVars>>

\* initLayout() on a window that is wide (w) or not, up to its first await
\* or, on the synchronous path, to its end; first: the call awaited by the
\* DOMContentLoaded handler.
BeginAlgoInitLayout(first, w) ==
    /\ algoStarted' = algoStarted + 1
    /\ algoLastWide' = w
    /\ IF w
       THEN /\ algoDom' = ShowContentLayout(ClearTraditional(algoDom))
            /\ algoCalls' = Append(algoCalls,
                                   [path |-> "flow", first |-> first])
            /\ UNCHANGED algoListening
       ELSE IF ~algoContent
            THEN /\ algoDom' = ClearTraditional(algoDom)
                 /\ algoCalls' = Append(algoCalls,
                                        [path |-> "trad", first |-> first])
                 /\ UNCHANGED algoListening
            ELSE /\ algoDom' =
                      RenderTraditionalLayout(ClearTraditional(algoDom))
                 /\ algoListening' = (algoListening \/ first)
                 /\ UNCHANGED algoCalls

\* DOMContentLoaded, at some width: await initLayout()
AlgoLoaded ==
    /\ ~algoBooted
    /\ algoBooted' = TRUE
    /\ \E w \in BOOLEAN :
         /\ algoWide' = w
         /\ BeginAlgoInitLayout(TRUE, w)
    /\ UNCHANGED <<algoContent, algoTimer, algoThrown>>
    /\ UNCHANGED otherThanAlgo

\* await flow.init() is over: the load has set flow.content or has failed;
\* scanRegions() and flow() leave the container and the display of the
\* regions alone.
AlgoFlowInitDone ==
    /\ \E i \in DOMAIN algoCalls :
         /\ algoCalls[i].path = "flow"
         /\ algoCalls' = RemoveAt(algoCalls, i)
         /\ algoListening' = (algoListening \/ algoCalls[i].first)
    /\ \E ok \in BOOLEAN : algoContent' = (algoContent \/ ok)
    /\ UNCHANGED <<algoBooted, algoWide, algoDom, algoStarted, algoLastWide,
                   algoTimer, algoThrown>>
    /\ UNCHANGED otherThanAlgo

\* await flow.loadContent() of the traditional branch is over: with content,
\* buildBlocks and renderTraditionalLayout; without, buildBlocks(null)
\* throws and the call ends there.
AlgoLoadDone ==
    /\ \E i \in DOMAIN algoCalls :
         /\ algoCalls[i].path = "trad"
         /\ algoCalls' = RemoveAt(algoCalls, i)
         /\ \E ok \in BOOLEAN :
              /\ algoContent' = (algoContent \/ ok)
              /\ IF algoContent \/ ok
                 THEN /\ algoDom' = RenderTraditionalLayout(algoDom)
                      /\ algoListening' =
                            (algoListening \/ algoCalls[i].first)
                      /\ UNCHANGED algoThrown
                 ELSE /\ algoThrown' = TRUE
                      /\ UNCHANGED <<algoDom, algoListening>>
    /\ UNCHANGED <<algoBooted, algoWide, algoStarted, algoLastWide,
                   algoTimer>>
    /\ UNCHANGED otherThanAlgo

\* A resize event: the window is wide or not; the page's listener, if
\* registered, restarts its timer.
AlgoResize ==
    /\ algoBooted
    /\ \E w \in BOOLEAN : algoWide' = w
    /\ algoTimer' = IF algoListening
                    THEN Debounced(algoTimer, PageDebounceMs)
                    ELSE algoTimer
    /\ UNCHANGED <<algoBooted, algoContent, algoCalls, algoListening,
                   algoDom, algoStarted, algoLastWide, algoThrown>>
    /\ UNCHANGED otherThanAlgo

\* The timer of the page's listener fires: initLayout()
AlgoTimerFires ==
    /\ algoTimer # NoTimer
    /\ algoStarted < MaxCalls
    /\ algoTimer' = NoTimer
    /\ BeginAlgoInitLayout(FALSE, algoWide)
    /\ UNCHANGED <<algoBooted, algoWide, algoContent, algoThrown>>
    /\ UNCHANGED otherThanAlgo

NextAlgo ==
    \/ AlgoLoaded
    \/ AlgoFlowInitDone
    \/ AlgoLoadDone
    \/ AlgoResize
    \/ AlgoTimerFires

SpecAlgo == Init /\ [][NextAlgo]_vars

-----------------------------------------------------------------------------
(***************************************************************************)
(* js/how-we-did-it.js: ResponsiveContentManager on a page that has the    *)
(* three elements it looks up.  A child of the overflow container is a     *)
(* record [kind, v]: a clone of region 2 with the version of the content   *)
(* it copied, or another element the page came with.  The overflow section *)
(* is not displayed until the script shows it.                             *)
(***************************************************************************)
\* The widths a window takes: below, at and above the 900px threshold
RcmWidths == {600, 900, 901, 1200}

\* contentClone = this.region2Content.cloneNode(true), with its new id
ContentClone(v) == [kind |-> "clone", v |-> v]

\* What the overflow container holds when the page arrives
OverflowAtLoad ==
    {[k \in 1..n |-> [kind |-> "other", v |-> 0]] : n \in 0..MaxOthers}

\* (the overflow container left as it is)
InnerHtmlLeft(children) == children
\* this.overflowContent.innerHTML = ''
InnerHtmlCleared(children) == <<>>

\* moveToOverflow(), the container holding children
MoveToOverflow(children) ==
    IF ~isContentMoved
    THEN /\ overflowContent' = Append(children, ContentClone(region2Version))
         /\ overflowDisplay' = "flex"
         /\ isContentMoved' = TRUE
    ELSE /\ overflowContent' = children
         /\ UNCHANGED <<overflowDisplay, isContentMoved>>

\* moveToHero(), the container holding children
MoveToHero(children) ==
    IF isContentMoved
    THEN /\ overflowContent' = InnerHtmlCleared(children)
         /\ overflowDisplay' = "none"
         /\ isContentMoved' = FALSE
    ELSE /\ overflowContent' = children
         /\ UNCHANGED <<overflowDisplay, isContentMoved>>

\* handleResize() with window.innerWidth = w, the container holding children
HandleResize(w, children) ==
    IF w <= 900 /\ ~isContentMoved THEN MoveToOverflow(children)
    ELSE IF w > 900 /\ isContentMoved THEN MoveToHero(children)
    ELSE /\ overflowContent' = children
         /\ UNCHANGED <<overflowDisplay, isContentMoved>>

otherThanOverflow ==
    <<flowVars, pageVars, splitVars, scanVars, buildVars, sandboxVars,
      wheelVars, destroyVars, algoVars, navVars>>

\* DOMContentLoaded: new ResponsiveContentManager(), whose init() adds the
\* resize listener and makes the initial check.  The container holds what
\* the page came with.
RcmConstructed ==
    /\ ~rcmLoaded
    /\ rcmLoaded' = TRUE
    /\ \E w \in RcmWidths, c \in OverflowAtLoad :
         /\ rcmWidth' = w
         /\ HandleResize(w, c)
    /\ UNCHANGED <<region2Version, rcmResizes>>
    /\ UNCHANGED otherThanOverflow

\* A resize event: handleResize()
RcmResize ==
    /\ rcmLoaded
    /\ \E w \in RcmWidths :
         /\ rcmWidth' = w
         /\ HandleResize(w, overflowContent)
    /\ rcmResizes' = Min(rcmResizes + 1, MaxCount)
    /\ UNCHANGED <<rcmLoaded, region2Version>>
    /\ UNCHANGED otherThanOverflow

\* The content of region 2 changes (the page rewrites it).
Region2Changes ==
    /\ rcmLoaded
    /\ region2Version < MaxVersions
    /\ region2Version' = region2Version + 1
    /\ UNCHANGED <<rcmLoaded, rcmWidth, isContentMoved, overflowContent,
                   overflowDisplay, rcmResizes>>
    /\ UNCHANGED otherThanOverflow

NextOverflow ==
    \/ RcmConstructed
    \/ RcmResize
    \/ Region2Changes

SpecOverflow == Init /\ [][NextOverflow]_vars

-----------------------------------------------------------------------------
(***************************************************************************)
(* GlobalNavigation (the navigation script): openNav, closeNav and the     *)
(* timers openNav sets for the links.  Time is counted in steps of 100ms;  *)
(* a timer is a record [link, due] and timers fire in the order they fall  *)
(* due, no sooner than that.                                               *)
(***************************************************************************)
\* document.querySelectorAll('.nav-link'), by index
NavLinks == 0..(MaxLinks - 1)

\* The inline style of a link that has none of the three properties set
EmptyStyle == [transition |-> "", transform |-> "", opacity |-> ""]

\* setTimeout(..., 100 + index * 100) called at time now
TimerDue(now, index) == now + 1 + index

\* The callback of a link's timer
Animate(style) ==
    [transition |-> "all 0.6s", transform |-> "translateY(0)",
     opacity |-> "1"]

\* openNav()
OpenNav ==
    /\ isOpen' = TRUE
    /\ overlayActive' = TRUE
    /\ ariaExpanded' = "true"
    /\ linkStyle' = [k \in NavLinks |->
                       [linkStyle[k] EXCEPT !.transform = "translateY(100px)",
                                            !.opacity = "0"]]
    /\ navTimers' = navTimers \cup
                      {[link |-> k, due |-> TimerDue(navClock, k)] :
                         k \in NavLinks}
    /\ navLast' = "open"

\* closeNav()
CloseNav ==
    /\ isOpen' = FALSE
    /\ overlayActive' = FALSE
    /\ ariaExpanded' = "false"
    /\ linkStyle' = [k \in NavLinks |-> EmptyStyle]
    /\ navLast' = "close"
    /\ UNCHANGED navTimers

otherThanNav ==
    <<flowVars, pageVars, splitVars, scanVars, buildVars, sandboxVars,
      wheelVars, destroyVars, algoVars, overflowVars>>

\* A click on the hamburger button
HamburgerClick ==
    /\ navOpens < MaxOpens
    /\ navOpens' = navOpens + 1
    /\ OpenNav
    /\ UNCHANGED navClock
    /\ UNCHANGED otherThanNav

\* A click on the close button, or on the overlay outside its content
CloseClick ==
    /\ CloseNav
    /\ UNCHANGED <<navClock, navOpens>>
    /\ UNCHANGED otherThanNav

\* The Escape key
EscapeKey ==
    /\ IF isOpen
       THEN CloseNav
       ELSE UNCHANGED <<isOpen, overlayActive, ariaExpanded, linkStyle,
                        navTimers, navLast>>
    /\ UNCHANGED <<navClock, navOpens>>
    /\ UNCHANGED otherThanNav

\* The earliest timer fires, once it is due.
NavTimerFires ==
    /\ \E t \in navTimers :
         /\ t.due <= navClock
         /\ \A u \in navTimers : t.due <= u.due
         /\ navTimers' = navTimers \ {t}
         /\ linkStyle' = [linkStyle EXCEPT ![t.link] = Animate(@)]
    /\ UNCHANGED <<isOpen, overlayActive, ariaExpanded, navLast, navClock,
                   navOpens>>
    /\ UNCHANGED otherThanNav

\* 100ms pass.
NavTimePasses ==
    /\ navClock < MaxNavClock
    /\ navClock' = navClock + 1
    /\ UNCHANGED <<isOpen, overlayActive, ariaExpanded, linkStyle, navTimers,
                   navLast, navOpens>>
    /\ UNCHANGED otherThanNav

NextNav ==
    \/ HamburgerClick
    \/ CloseClick
    \/ EscapeKey
    \/ NavTimerFires
    \/ NavTimePasses

SpecNav == Init /\ [][NextNav]_vars

-----------------------------------------------------------------------------
(***************************************************************************)
(* Properties                                                              *)
(***************************************************************************)
\* The elements of all regions in flow order, each region in insertion order
AllPlaced == Flatten(content)
PlacedWords == Flatten([k \in 1..Len(AllPlaced) |-> AllPlaced[k].words])
OriginalWords == Flatten([k \in 1..Len(blocks) |-> Words(blocks[k].text)])
UsedIn(k) == SeqSum([j \in 1..Len(content[k]) |-> content[k][j].h])
PlacedIn(k, id) == \E j \in 1..Len(content[k]) : content[k][j].id = id
Fragments == {e \in {AllPlaced[k] : k \in 1..Len(AllPlaced)} : e.frag}

\* C1: at every step of a pass, 0 <= used <= availableHeight for the region
\* being filled, used is the sum of the measured heights placed in it, and
\* in no region does that sum exceed the region's availableHeight.
C1_NoOverflow ==
    /\ pc = "loop" =>
         /\ 0 <= used /\ used <= availableHeight
         /\ used = UsedIn(ri)
    /\ \A k \in 1..Len(content) :
         UsedIn(k) <= Max(0, regions[k].availableHeight)

C1_Witness ==
    /\ pc = "loop"
    /\ used = availableHeight
    /\ Len(content[ri]) >= 2
    /\ \E j \in 1..Len(content[ri]) : content[ri][j].frag

\* C2: the words placed, region by region in flow order and within a region
\* in insertion order, are a prefix of the words of the block list in
\* document order (in every state, so also after the pass).
C2_OrderPreserved == IsPrefix(PlacedWords, OriginalWords)

C2_Witness ==
    /\ pc = "done"
    /\ Len(regions) = 2 /\ content[1] # <<>> /\ content[2] # <<>>
    /\ Fragments # {}
    /\ Len(PlacedWords) < Len(OriginalWords)

\* C3: in the intro.js engine, after a pass, a keepWithNext block that has
\* a successor is in a region exactly if its successor is in that region.
C3_KeepWithNextAtomic ==
    (engine = "intro" /\ pc = "done") =>
        \A i \in 1..(Len(blocks) - 1) :
            blocks[i].keepWithNext =>
                \A k \in 1..Len(content) :
                    PlacedIn(k, blocks[i].id) <=> PlacedIn(k, blocks[i + 1].id)

\* C4: in the intro.js engine, every fragment a split placed has at least
\* orphanProtection lines: its height is at least that many line heights.
C4_OrphanFloorIntro ==
    engine = "intro" =>
        \A e \in Fragments : e.rect >= e.op * GetLineHeightPx

C4_Witness ==
    /\ engine = "intro"
    /\ \E e \in Fragments : e.op = 3 /\ e.rect = 3 * GetLineHeightPx
    /\ pc = "done"

\* C5: in the text-flow-intro.js engine, every fragment a split placed has
\* at least orphanProtection lines.
C5_OrphanFloorTfi ==
    engine = "tfi" =>
        \A e \in Fragments : e.rect >= e.op * GetLineHeightPx

\* C6: after every split that placed a fragment, the remainder, at the
\* width of the split, has at least orphanProtection lines as well.
C6_RemainderFloor ==
    engine = "intro" =>
        \A sp \in splitLog :
            sp.placed =>
                RectHeight(sp.rest, sp.width) >= sp.op * GetLineHeightPx

\* C7: a heading is placed whole, at most once over all regions, never as a
\* fragment, and splitParagraph is never called on a heading.
C7_HeadingAtomic ==
    /\ \A i \in 1..Len(blocks) :
         blocks[i].type = "heading" =>
             /\ Cardinality({k \in 1..Len(AllPlaced) :
                               AllPlaced[k].id = blocks[i].id}) <= 1
             /\ \A k \in 1..Len(AllPlaced) :
                    AllPlaced[k].id = blocks[i].id =>
                        /\ AllPlaced[k].words = Words(blocks[i].text)
                        /\ ~AllPlaced[k].frag
    /\ \A sp \in splitLog : sp.type # "heading"

C7_Witness ==
    /\ pc = "done"
    /\ Len(regions) = 2
    /\ \E j \in 1..Len(content[2]) :
         content[2][j].type = "heading" /\ content[2][j].pair
    /\ \E j \in 1..Len(content[1]) : content[1][j].type = "heading"

\* C8: a second pass on the same blocks, regions and geometry leaves every
\* region with the content the first pass left.
C8_Idempotent ==
    (pc = "done" /\ pass >= 2) => content = firstPass

C8_Witness ==
    /\ pc = "done" /\ pass = 2
    /\ Fragments # {}
    /\ Len(regions) = 2 /\ content[2] # <<>>

\* C9: no step of a flow pass changes this.blocks.
C9_BlocksUnchanged == [][pc # "new" => blocks' = blocks]_vars

C9_Witness ==
    /\ pc = "done"
    /\ \E sp \in splitLog :
         /\ sp.placed
         /\ Words(blocks[sp.id].text) = sp.before
         /\ sp.rest # sp.before

\* C10: a burst of resize events that began with all quiet has caused, once
\* all is quiet again, exactly one flow pass, and none before the quiet
\* interval after the last event of the burst was over.
C10_OneDebouncedPass ==
    (track = "burst" /\ Quiescent) => (burstPasses = 1 /\ ~earlyPass)

\* C11: every flow pass that ran, whether init() or a resize handler of the
\* engine started it, ran on the region list a scan at that pass gives: the
\* regions visible at the pass, in flow order.
C11_RescanEachPass ==
    (lastPass.by # "none" /\ lastPass.ran) => lastPass.fresh

\* C12: after a load that failed the block list is empty, and a flow() call
\* that follows a failed load runs no pass (it has no blocks to place).
C12_FailedLoadEmpty ==
    /\ lastLoad = "failed" => blockCount = 0
    /\ (lastPass.by # "none" /\ lastPass.load = "failed") => ~lastPass.ran

\* C13: no initLayout() call ends with an uncaught exception, whatever the
\* width of the window and the outcome of the fetch.
C13_InitLayoutNeverThrows == ~thrown

\* C14: every call of flow() comes after a wait for the fonts that is over
\* and, after that, a content load that has returned (well or not).
C14_FontsThenLoad ==
    lastPass.by # "none" => (lastPass.fonts /\ lastPass.load # "none")

C14_Witness ==
    /\ lastPass.by = "init" /\ lastPass.ran
    /\ Len(handlers) = 1 /\ calls = <<>>

\* C15: a flow pass on an empty region list ends at once: it changes no
\* region content, no block and nothing of the sandbox, and places nothing.
C15_EmptyRegionsNoOp ==
    [][(pc = "idle" /\ Len(regions) = 0) =>
          /\ pc' = "done"
          /\ content' = content /\ Flatten(content') = <<>>
          /\ blocks' = blocks
          /\ queue' = queue
          /\ sandboxWidth' = sandboxWidth]_vars

C15_Witness ==
    /\ pc = "done" /\ pass = 1
    /\ Len(regions) = 0 /\ Len(blocks) = MaxBlocks

\* C17: in the text-flow-intro.js engine, after a pass, a keepWithNext
\* block that has a successor is in a region exactly if its successor is in
\* that region.
C17_KeepWithNextTfi ==
    (engine = "tfi" /\ pc = "done") =>
        \A i \in 1..(Len(blocks) - 1) :
            blocks[i].keepWithNext =>
                \A k \in 1..Len(content) :
                    PlacedIn(k, blocks[i].id) <=> PlacedIn(k, blocks[i + 1].id)

\* The height the head of the queue and its successor measure together
PairHeight ==
    MeasureHeight(<<ElFactory(queue[1], queue[1].text),
                    ElFactory(queue[2], queue[2].text)>>, sandboxWidth)

\* C18: in the intro.js engine, when the head of the queue has keepWithNext,
\* a next block exists and the two together measure more than the space
\* left, the step leaves the region and the queue as they are and goes on
\* to the next region; and no step of a pass changes the content of a
\* region other than the one being filled, nor goes back to a region.
C18_PairDeferred ==
    [][/\ (/\ pc = "loop" /\ engine = "intro"
           /\ Len(queue) >= 2 /\ remaining > 0
           /\ queue[1].keepWithNext
           /\ PairHeight > remaining) =>
              /\ content' = content
              /\ queue' = queue
              /\ ri' = ri + 1 /\ pc' = "region"
       /\ pc \in {"region", "loop"} =>
              /\ ri' >= ri
              /\ \A k \in 1..Len(content) :
                    k # ri => content'[k] = content[k]]_vars

\* The pair was deferred although its head alone fitted the space left.
C18_Witness ==
    /\ engine = "intro" /\ pc = "region" /\ ri >= 2
    /\ Len(queue) >= 2 /\ queue[1].keepWithNext
    /\ content[ri - 1] # <<>>
    /\ regions[ri - 1].availableHeight - used > 0
    /\ PairHeight > regions[ri - 1].availableHeight - used
    /\ MeasureHeight(<<ElFactory(queue[1], queue[1].text)>>, sandboxWidth)
           <= regions[ri - 1].availableHeight - used

\* The queue is the block list from block off + 1 on, entry by entry, but
\* that the text of its head may be the last words of the block's text.
QueueIsSuffix(q, bs) ==
    \E off \in 0..Len(bs) :
        /\ Len(q) = Len(bs) - off
        /\ \A k \in 1..Len(q) :
             LET b == bs[off + k]
                 ws == Words(b.text)
             IN  /\ q[k].id = b.id /\ q[k].type = b.type
                 /\ q[k].keepWithNext = b.keepWithNext
                 /\ q[k].orphanProtection = b.orphanProtection
                 /\ \/ q[k].text = b.text
                    \/ /\ k = 1
                       /\ \E j \in 1..(Len(ws) - 1) :
                            q[k].text = Join(SliceFrom(ws, j))

\* C19: at every step of a flow pass the queue is a suffix of the block list
\* in its order, only the head may differ from its block, by having as text
\* a word-suffix of the block's text, and the queue never grows.
C19_QueueIsSuffix ==
    [][/\ QueueIsSuffix(queue', blocks')
       /\ pc \in {"region", "loop"} => Len(queue') <= Len(queue)]_vars

C19_Witness ==
    /\ pc = "loop" /\ ri = 2
    /\ Len(queue) = 2 /\ Len(blocks) = 3
    /\ queue[1].text # blocks[2].text

Monotone(H) ==
    \A j, k \in DOMAIN H : j <= k => H[j] <= H[k]

\* C16: in the intro.js engine, when prefix height is non-decreasing in the
\* word count, splitParagraph returns as fitsWords the largest k in
\* 1..wordCount whose prefix is no taller than availableHeight, if that
\* prefix is at least lineHeight * minLines tall, and 0 otherwise.
C16_LargestFittingPrefix ==
    (engine = "intro" /\ splitCall # NoCall /\ Monotone(splitCall.H)) =>
        LET H == splitCall.H
            fitting == {k \in DOMAIN H : H[k] <= splitCall.availableHeight}
            largest == CHOOSE k \in fitting : \A j \in fitting : j <= k
        IN  splitResult.fitsWords =
                IF fitting # {} /\ H[largest] >= splitCall.lineHeight
                                                 * MinLines(splitCall.op)
                THEN largest ELSE 0

C16_Witness ==
    /\ engine = "intro" /\ splitCall # NoCall /\ Monotone(splitCall.H)
    /\ splitResult.fitsWords = 2
    /\ Len(Words(splitCall.text)) = MaxWords
    /\ splitCall.op = 3 /\ splitCall.lineHeight = 1

\* The words still in the queue
QueueWords == SeqSum([k \in 1..Len(queue) |-> Len(Words(queue[k].text))])

\* C21: every flow pass ends; each step of the loop over the queue removes
\* a block from the queue, or takes words off the head paragraph, or leaves
\* the region, each step at the head of the loop over the regions goes on
\* to the next region, into the region or ends the pass, and the binary
\* search of a split takes no more measurements than the paragraph has
\* words.
C21_FlowTerminates ==
    /\ [][/\ pc = "loop" =>
               \/ Len(queue') < Len(queue)
               \/ Len(queue') = Len(queue) /\ QueueWords' < QueueWords
               \/ ri' = ri + 1 /\ pc' = "region"
          /\ pc = "region" =>
               \/ ri' = ri + 1
               \/ ri' = ri /\ pc' \in {"loop", "done"}
          /\ \A sp \in splitLog' : \A a \in 0..MaxHeight :
               BinarySearchMeasurements(
                   [k \in 1..Len(sp.before) |->
                       RectHeight(SliceTo(sp.before, k), sp.width)],
                   a, 1, Len(sp.before)) <= Len(sp.before)]_vars
    /\ (pc = "idle") ~> (pc = "done")

C21_Witness ==
    /\ pc = "done" /\ pass = 1
    /\ Len(regions) = MaxRegions /\ content[MaxRegions] # <<>>
    /\ Len(queue) > 0
    /\ Fragments # {}

\* C22: in the intro.js engine, a paragraph whose whole text, at the width
\* of the region, is lower than lineHeight * orphanProtection is not split
\* there: splitParagraph returns fitsWords = 0 for it and no fragment of it
\* is placed, so it stays whole at the head of the queue.
C22_BelowFloorNeverSplit ==
    engine = "intro" =>
        \A sp \in splitLog :
            (/\ sp.before = Words(blocks[sp.id].text)
             /\ RectHeight(sp.before, sp.width) < sp.op * GetLineHeightPx) =>
                sp.fitsWords = 0 /\ ~sp.placed

\* The paragraph was left whole by one region and placed whole in another.
C22_Witness ==
    /\ engine = "intro" /\ pc = "done"
    /\ \E sp \in splitLog :
         /\ sp.before = Words(blocks[sp.id].text)
         /\ Len(sp.before) >= 2
         /\ RectHeight(sp.before, sp.width) = 2 * GetLineHeightPx
         /\ sp.op = 3
         /\ sp.fitsWords = 0
         /\ \E k \in 1..Len(AllPlaced) :
                AllPlaced[k].id = sp.id /\ ~AllPlaced[k].frag

\* C23: in the text-flow-intro.js engine, with prefix heights that do not
\* decrease and are at least one line high, splitParagraph returns as
\* fitsWords the length of the longest word prefix whose height is no more
\* than availableHeight, also for heights that are no whole multiples of
\* the line height.
C23_TfiLongestPrefix ==
    (/\ engine = "tfi" /\ splitCall # NoCall /\ Monotone(splitCall.H)
     /\ \A k \in DOMAIN splitCall.H : splitCall.H[k] >= splitCall.lineHeight) =>
        LET H == splitCall.H
            fitting == {k \in DOMAIN H : H[k] <= splitCall.availableHeight}
        IN  /\ fitting = {} => splitResult.fitsWords = 0
            /\ fitting # {} =>
                 /\ splitResult.fitsWords \in fitting
                 /\ \A k \in fitting : k <= splitResult.fitsWords

-----------------------------------------------------------------------------
\* C24: after scanRegions() the region list is sorted in ascending order of
\* data-flow-order, a missing attribute counting as 0, regions of equal order
\* in document order; the for loop of flow() visits the regions in that
\* order, each once.
C24_SortedStableVisited ==
    scanPc \in {"scanned", "flow", "flowed"} =>
        /\ \A i, j \in DOMAIN regionNodes :
             i < j =>
               LET a == candidates[regionNodes[i]]
                   b == candidates[regionNodes[j]]
                   oa == IF a.hasOrder THEN a.order ELSE 0
                   ob == IF b.hasOrder THEN b.order ELSE 0
               IN  \/ oa < ob
                   \/ oa = ob /\ regionNodes[i] < regionNodes[j]
        /\ Len(visits) <= Len(regionNodes)
        /\ visits = SubSeq(regionNodes, 1, Len(visits))
        /\ scanPc = "flowed" /\ Len(regionNodes) > 0 => visits = regionNodes

\* A pass has visited three regions that the sort reordered, one of them
\* without the attribute, tied with a region of order 0 that follows it.
C24_Witness ==
    /\ scanPc = "flowed"
    /\ Len(visits) = 3
    /\ visits = regionNodes
    /\ regionNodes = <<2, 3, 1>>
    /\ ~candidates[2].hasOrder
    /\ candidates[3].hasOrder /\ candidates[3].order = 0
    /\ candidates[1].order = 1

\* C25: after scanRegions() the region list holds exactly the candidates
\* whose display is not none, whose visibility is not hidden and whose
\* opacity is not 0, each once; each listed region holds one wrapper and
\* nothing else, the wrapper is empty when scanRegions() returns, and all
\* that the following pass writes is written after that reset.
C25_ScanResets ==
    scanPc \in {"scanned", "flow", "flowed"} =>
        /\ {regionNodes[i] : i \in DOMAIN regionNodes} =
             {k \in DOMAIN candidates :
                /\ candidates[k].style.display # "none"
                /\ candidates[k].style.visibility # "hidden"
                /\ candidates[k].style.opacity # "0"}
        /\ \A i, j \in DOMAIN regionNodes :
             regionNodes[i] = regionNodes[j] => i = j
        /\ \A i \in DOMAIN regionNodes :
             LET el == candidates[regionNodes[i]]
             IN  /\ Len(el.children) = 1
                 /\ el.children[1].cls = "flow-content"
                 /\ scanPc = "scanned" => el.children[1].items = <<>>
                 /\ \A x \in DOMAIN el.children[1].items :
                      el.children[1].items[x] = scanNo

\* After a second scan, that followed a pass which wrote, a pass has written
\* into a listed region that came with content; a candidate hidden by its
\* opacity keeps what it came with and a half-transparent one is listed.
C25_Witness ==
    /\ scanPc = "flowed"
    /\ scanNo = 2
    /\ Len(candidates) = 3
    /\ Len(regionNodes) = 2
    /\ \E i \in DOMAIN regionNodes :
         /\ candidates[regionNodes[i]].children[1].items = <<2>>
         /\ candidates[regionNodes[i]].style.opacity = "0.5"
    /\ \E k \in DOMAIN candidates :
         /\ candidates[k].style.opacity = "0"
         /\ Len(candidates[k].children) = 2


\* The positions in the raw list of the records of type heading or
\* paragraph, ascending
KeptPositions(raw) ==
    SelectSeq([i \in 1..Len(raw) |-> i],
              LAMBDA i : raw[i].type \in {"heading", "paragraph"})

\* C26: buildBlocks returns one block for each raw record of type heading
\* or paragraph, in the order of the raw list, and none for a record of
\* another type; a block has the id of its record, or its record's
\* position in the raw list if the record has no id; its orphanProtection
\* is the record's if that is a number, else 2; a heading has the level of
\* its record, or 2 if the record has none; a paragraph has no level.
C26_BuildBlocks ==
    buildPc = "built" =>
        LET kept == KeptPositions(json)
        IN  /\ Len(built) = Len(kept)
            /\ \A k \in DOMAIN built :
                 LET b == json[kept[k]]
                 IN  /\ built[k].type = b.type
                     /\ built[k].text = b.text
                     /\ built[k].keepWithNext = b.keepWithNext
                     /\ built[k].id = (IF b.id # 0 THEN b.id ELSE kept[k])
                     /\ built[k].orphanProtection =
                          (IF b.orphanProtection = -1 THEN 2
                           ELSE b.orphanProtection)
                     /\ b.type = "heading" =>
                          built[k].level = (IF b.level # 0 THEN b.level ELSE 2)
                     /\ b.type = "paragraph" =>
                          "level" \notin DOMAIN built[k]

\* An unsupported record is dropped ahead of a paragraph without id and
\* without numeric orphanProtection and a heading without level.
C26_Witness ==
    /\ buildPc = "built"
    /\ Len(json) = 3
    /\ json[1].type = "image"
    /\ json[2].type = "paragraph" /\ json[2].id = 0
    /\ json[2].orphanProtection = -1
    /\ json[3].type = "heading" /\ json[3].level = 0 /\ json[3].id = 0
    /\ Len(built) = 2
    /\ built[1].id = 2 /\ built[1].orphanProtection = 2
    /\ built[2].id = 3 /\ built[2].level = 2


\* C27: whatever the sandbox holds was put there by the latest measurement
\* (measureHeight and splitParagraph empty it first); the sandbox is always
\* hidden, off-screen and closed to pointer events; the instance never
\* makes a second sandbox.
C27_SandboxCleanHidden ==
    /\ sandboxCount <= 1
    /\ (sandbox = NoSandbox) = (sandboxCount = 0)
    /\ sandbox # NoSandbox =>
         /\ sandbox.style.visibility = "hidden"
         /\ sandbox.style.position = "absolute"
         /\ sandbox.style.left = -99999
         /\ sandbox.style.pointerEvents = "none"
         /\ \A c \in DOMAIN sandbox.children :
              sandbox.children[c].m = measureNo

\* After createSandbox() was called more than once and a splitParagraph
\* left its measuring element behind, a later splitParagraph is measuring.
C27_Witness ==
    /\ createCalls >= 2
    /\ measureNo = MaxMeasures
    /\ sbPc = "split"
    /\ sandbox # NoSandbox
    /\ sandbox.children = <<[m |-> MaxMeasures, words |-> 2]>>
    /\ sandbox.style.width = 1


\* C28: a wheel event that arrives while the window is 768px wide or less
\* is not prevented and scrolls nothing horizontally, whatever resizes came
\* before.
C28_NarrowWheelUntouched ==
    (lastWheel # NoWheel /\ lastWheel.width <= 768) =>
        /\ ~lastWheel.prevented
        /\ lastWheel.scrolledBy = 0


\* C29: once destroy() has been called, with every init() called before it
\* complete, no flow pass of the instance is caused by a resize event that
\* comes after the destroy().
C29_NoPassAfterDestroy ==
    (destroyed /\ ~pendingAtDestroy) => ~latePass


\* C30: when no initLayout() call of the algorithm page is under way and
\* the window was wider than 1024px at the latest call, the traditional
\* container is empty and no region has display none from the script.
C30_WideLayoutWins ==
    (algoStarted > 0 /\ algoCalls = <<>> /\ algoLastWide) =>
        /\ ~algoDom.tradFilled
        /\ ~algoDom.regionsHidden


\* The premises of C31 on a call of splitParagraph: prefix heights that do
\* not decrease and are positive whole multiples of the line height,
\* orphanProtection 1
WholeLines(c) ==
    /\ c.op = 1
    /\ Monotone(c.H)
    /\ \A k \in DOMAIN c.H : c.H[k] > 0 /\ c.H[k] % c.lineHeight = 0

\* splitParagraph of the other engine on the arguments of the call
OtherSplit ==
    IF engine = "intro"
    THEN SplitParagraphTfi(splitCall.text, splitCall.op, splitCall.H,
                           splitCall.lineHeight, splitCall.availableHeight)
    ELSE SplitParagraphIntro(splitCall.text, splitCall.op, splitCall.H,
                             splitCall.lineHeight, splitCall.availableHeight)

\* C31: on a call with whole-line prefix heights and orphanProtection 1, what
\* splitParagraph of the engine returned (fitsWords, firstText, restText) is
\* what splitParagraph of the other engine returns for the same arguments.
C31_SplitsAgree ==
    (splitCall # NoCall /\ WholeLines(splitCall)) => splitResult = OtherSplit

\* What the two engines do share on such a call: the same fitsWords and the
\* same firstText, the same restText when fitsWords is not 0, and when it
\* is 0 a restText of the same words (the text as given or its words joined
\* by single spaces).
SplitsAgreeOnWords ==
    (splitCall # NoCall /\ WholeLines(splitCall)) =>
        /\ splitResult.fitsWords = OtherSplit.fitsWords
        /\ splitResult.firstText = OtherSplit.firstText
        /\ Words(splitResult.restText) = Words(OtherSplit.restText)
        /\ splitResult.fitsWords > 0 =>
              splitResult.restText = OtherSplit.restText
        /\ splitResult.fitsWords = 0 =>
              splitResult.restText \in
                  {splitCall.text, Join(Words(splitCall.text))}

\* A text that begins with whitespace is split after two of its three
\* words, the line height being 2 and the available height 3.
SplitsAgreeOnWordsWitness ==
    /\ splitCall # NoCall
    /\ WholeLines(splitCall)
    /\ splitCall.lineHeight = 2
    /\ splitCall.availableHeight = 3
    /\ splitCall.H = <<2, 2, 4>>
    /\ splitCall.text[1] = 0
    /\ splitResult.fitsWords = 2
    /\ Len(Words(splitResult.restText)) = 1


\* The clones of region 2 among the children of the overflow container
Clones ==
    {k \in DOMAIN overflowContent : overflowContent[k].kind = "clone"}

NavSettledClosed == navLast = "close" /\ navTimers = {}

\* C33: once closeNav() has run and every timer set by earlier openNav()
\* calls has fired, the menu is closed (isOpen false, the overlay without
\* the active class, aria-expanded false) and every link has its inline
\* transition, transform and opacity empty.
C33_ClosedAndReset ==
    NavSettledClosed =>
        /\ ~isOpen
        /\ ~overlayActive
        /\ ariaExpanded = "false"
        /\ \A k \in NavLinks : linkStyle[k] = EmptyStyle

\* The part about the menu itself holds: in such a state it is closed.
NavClosedAfterClose ==
    NavSettledClosed =>
        ~isOpen /\ ~overlayActive /\ ariaExpanded = "false"

\* The menu was opened and closed, the timers have fired since, and the
\* menu is closed.
NavClosedAfterCloseWitness ==
    /\ NavSettledClosed
    /\ navOpens > 0
    /\ ~isOpen
    /\ \E k \in NavLinks : linkStyle[k] # EmptyStyle

=============================================================================
